---- MODULE Spec2Model ----
(***************************************************************************)
(* PoofMicro: build pipeline (src/core/builder.py), static simulator       *)
(* (src/core/builder.py, ESP32Simulator) and hardware bridge               *)
(* (src/services/esp32_hardware.py).                                       *)
(*                                                                         *)
(* Text is modelled as a sequence of words; the Python string is the       *)
(* concatenation of the words.  Words are chosen so that no search needle  *)
(* of the code (the fence, "json", "{", "}", " ", "/", "WiFi", ...) straddles   *)
(* a word boundary or occurs strictly inside a word, hence str.find,       *)
(* str.split, the in operator and str.strip act on whole words.          *)
(***************************************************************************)
EXTENDS Integers, Sequences, FiniteSets, TLC

----------------------------------------------------------------------------
(* Bounds *)

\* number of chunks concatenated into one reply text handed to extract
MaxChunks == 4
\* number of serial connections the bridge may open in one behaviour
MaxConns == 3
\* number of poll iterations of one readSerial / monitor loop
MaxPolls == 2
\* number of collaborator calls in one behaviour
MaxCalls == 2
MaxSimBuilds == 2

----------------------------------------------------------------------------
(* Python str operations on word sequences *)

\* s[i-1:j-1] of Python, with 1-based inclusive bounds
Slice(s, i, j) == IF i > j THEN <<>> ELSE SubSeq(s, i, j)

\* needle n occurs in s starting at position i
OccursAt(s, n, i) ==
    /\ i >= 1
    /\ i + Len(n) - 1 <= Len(s)
    /\ \A k \in 1..Len(n) : s[i + k - 1] = n[k]

\* str.find: 1-based index of the first occurrence, 0 for Python's -1
Find(s, n) ==
    IF \E i \in 1..Len(s) : OccursAt(s, n, i)
    THEN CHOOSE i \in 1..Len(s) :
            /\ OccursAt(s, n, i)
            /\ \A j \in 1..(i - 1) : ~OccursAt(s, n, j)
    ELSE 0

\* str.rfind: 1-based index of the last occurrence, 0 for Python's -1
RFind(s, n) ==
    IF \E i \in 1..Len(s) : OccursAt(s, n, i)
    THEN CHOOSE i \in 1..Len(s) :
            /\ OccursAt(s, n, i)
            /\ \A j \in (i + 1)..Len(s) : ~OccursAt(s, n, j)
    ELSE 0

\* the in operator on strings
Contains(s, n) == Find(s, n) # 0

\* str.split(n): the list of pieces between non-overlapping occurrences
RECURSIVE Split(_, _)
Split(s, n) ==
    LET i == Find(s, n) IN
    IF i = 0 THEN << s >>
    ELSE << Slice(s, 1, i - 1) >> \o Split(Slice(s, i + Len(n), Len(s)), n)

\* words that str.strip and the JSON scanner treat as whitespace
WS == {" ", "\n"}

RECURSIVE LStrip(_)
LStrip(s) == IF s # <<>> /\ Head(s) \in WS THEN LStrip(Tail(s)) ELSE s

RECURSIVE RStrip(_)
RStrip(s) ==
    IF s # <<>> /\ s[Len(s)] \in WS THEN RStrip(Slice(s, 1, Len(s) - 1)) ELSE s

\* str.strip()
Strip(s) == RStrip(LStrip(s))

\* list.index of python for the piece after the first separator: split(n)[1]
Piece(s, n, k) == Split(s, n)[k]

----------------------------------------------------------------------------
(* JSON values: [t |-> tag, v |-> payload]                                   *)
(*   "obj"  : v is the sequence of members [k |-> key words, x |-> value]   *)
(*            in dict insertion order                                       *)
(*   "list" : v is the sequence of element values                           *)
(*   "str"  : v is the word sequence of the string                          *)
(*   "num"  : v is the digit words; "null": v = <<>>                        *)

JNull == [t |-> "null", v |-> <<>>]
JStr(w) == [t |-> "str", v |-> w]
JNum(w) == [t |-> "num", v |-> w]
JList(l) == [t |-> "list", v |-> l]
JObj(m) == [t |-> "obj", v |-> m]

HasKey(o, k) == \E i \in 1..Len(o.v) : o.v[i].k = k

\* dict.get(k, d) on a JSON object
Get(o, k, d) ==
    IF HasKey(o, k)
    THEN o.v[CHOOSE i \in 1..Len(o.v) : o.v[i].k = k].x
    ELSE d

\* dict[k] = x: an existing key keeps its position, a new key is appended
DictSet(m, k, x) ==
    IF \E i \in 1..Len(m) : m[i].k = k
    THEN [i \in 1..Len(m) |-> IF m[i].k = k THEN [k |-> k, x |-> x] ELSE m[i]]
    ELSE Append(m, [k |-> k, x |-> x])

\* bool(value) of Python
Truthy(j) == j.v # <<>>

----------------------------------------------------------------------------
(* json.loads *)

Digits == {"1"}
ParseFail == [ok |-> FALSE, val |-> JNull, next |-> 0]
ParseOk(val, next) == [ok |-> TRUE, val |-> val, next |-> next]

\* index of the first non-whitespace word at or after i
RECURSIVE SkipWs(_, _)
SkipWs(s, i) == IF i <= Len(s) /\ s[i] \in WS THEN SkipWs(s, i + 1) ELSE i

\* index just past the run of digit words starting at i
RECURSIVE SkipDigits(_, _)
SkipDigits(s, i) ==
    IF i <= Len(s) /\ s[i] \in Digits THEN SkipDigits(s, i + 1) ELSE i

\* s[i] is the opening quote: the string ends at the next quote word; a raw
\* newline inside a string is an invalid control character
ScanString(s, i) ==
    LET rest == Slice(s, i + 1, Len(s))
        q == Find(rest, << "\"" >>)
        body == Slice(rest, 1, q - 1)
    IN  IF q = 0 \/ Contains(body, << "\n" >>)
        THEN ParseFail
        ELSE ParseOk(JStr(body), i + q + 1)

RECURSIVE ScanValue(_, _)
RECURSIVE ScanMembers(_, _, _)
RECURSIVE ScanElements(_, _, _)

\* scanner.scan_once at position i
ScanValue(s, i) ==
    IF i > Len(s) THEN ParseFail
    ELSE IF s[i] = "\"" THEN ScanString(s, i)
    ELSE IF s[i] = "{" THEN
        LET j == SkipWs(s, i + 1) IN
        IF j <= Len(s) /\ s[j] = "}" THEN ParseOk(JObj(<<>>), j + 1)
        ELSE ScanMembers(s, j, <<>>)
    ELSE IF s[i] = "[" THEN
        LET j == SkipWs(s, i + 1) IN
        IF j <= Len(s) /\ s[j] = "]" THEN ParseOk(JList(<<>>), j + 1)
        ELSE ScanElements(s, j, <<>>)
    ELSE IF s[i] = "null" THEN ParseOk(JNull, i + 1)
    ELSE IF s[i] \in Digits THEN
        LET j == SkipDigits(s, i) IN ParseOk(JNum(Slice(s, i, j - 1)), j)
    ELSE ParseFail

\* JSONObject: at i a key string is expected
ScanMembers(s, i, acc) ==
    IF i > Len(s) \/ s[i] # "\"" THEN ParseFail
    ELSE
      LET key == ScanString(s, i) IN
      IF ~key.ok THEN ParseFail
      ELSE
        LET c == SkipWs(s, key.next) IN
        IF c > Len(s) \/ s[c] # ":" THEN ParseFail
        ELSE
          LET val == ScanValue(s, SkipWs(s, c + 1)) IN
          IF ~val.ok THEN ParseFail
          ELSE
            LET acc2 == DictSet(acc, key.val.v, val.val)
                e == SkipWs(s, val.next)
            IN  IF e > Len(s) THEN ParseFail
                ELSE IF s[e] = "}" THEN ParseOk(JObj(acc2), e + 1)
                ELSE IF s[e] = "," THEN ScanMembers(s, SkipWs(s, e + 1), acc2)
                ELSE ParseFail

\* JSONArray: at i a value is expected
ScanElements(s, i, acc) ==
    LET val == ScanValue(s, i) IN
    IF ~val.ok THEN ParseFail
    ELSE
      LET acc2 == Append(acc, val.val)
          e == SkipWs(s, val.next)
      IN  IF e > Len(s) THEN ParseFail
          ELSE IF s[e] = "]" THEN ParseOk(JList(acc2), e + 1)
          ELSE IF s[e] = "," THEN ScanElements(s, SkipWs(s, e + 1), acc2)
          ELSE ParseFail

\* json.loads(s): one value surrounded by optional whitespace, else
\* JSONDecodeError (ok = FALSE)
JsonLoads(s) ==
    LET r == ScanValue(s, SkipWs(s, 1)) IN
    IF r.ok /\ SkipWs(s, r.next) > Len(s) THEN r ELSE ParseFail

----------------------------------------------------------------------------
(* ESP32Builder._parse_generation_response *)

\* the word that stands for the three-backtick fence marker (the character
\* cannot be written inside a TLA+ string)
BT3 == "<bt3>"
FenceJson == << BT3, "json" >>
Fence == << BT3 >>

EmptyManifest ==
    JObj(<< [k |-> << "files" >>, x |-> JObj(<<>>)],
            [k |-> << "platformio_ini" >>, x |-> JStr(<<>>)],
            [k |-> << "config" >>, x |-> JObj(<<>>)] >>)

\* lines 631-634: the candidate that replaces content
CandidateGenericFirstMutant(content) ==
    IF Contains(content, Fence)
    THEN Strip(Piece(Piece(content, Fence, 2), Fence, 1))
    ELSE content
Candidate(content) ==
    IF Contains(content, FenceJson)
    THEN Strip(Piece(Piece(content, FenceJson, 2), Fence, 1))
    ELSE IF Contains(content, Fence)
    THEN Strip(Piece(Piece(content, Fence, 2), Fence, 1))
    ELSE content

\* lines 641-646: first "{" to last "}" of the (reassigned) content
BraceSpan(content) ==
    LET start == Find(content, << "{" >>)
        end == RFind(content, << "}" >>)
    IN  IF start >= 1 /\ end >= start
        THEN JsonLoads(Slice(content, start, end))
        ELSE ParseFail

_parse_generation_response(text) ==
    LET content == Candidate(text)
        first == JsonLoads(content)
        second == BraceSpan(content)
    IN  IF first.ok THEN first.val
        ELSE IF second.ok THEN second.val
        ELSE EmptyManifest

----------------------------------------------------------------------------
(* pathlib over the projects root.  A path is the sequence of its components *)
(* below ESP32Builder.projects_path; <<>> is the projects root itself, which *)
(* __init__ creates.  A file system is [dirs |-> set of paths,               *)
(* files |-> function from path to content].  File names of the manifests   *)
(* are relative and have no "." or ".." component.                          *)

\* "".join(words)
RECURSIVE Join(_)
Join(w) == IF w = <<>> THEN "" ELSE Head(w) \o Join(Tail(w))

RECURSIVE DropEmpty(_)
DropEmpty(ps) ==
    IF ps = <<>> THEN <<>>
    ELSE IF Head(ps) = "" THEN DropEmpty(Tail(ps))
    ELSE << Head(ps) >> \o DropEmpty(Tail(ps))

\* the components of a relative path string
Components(w) ==
    LET pieces == Split(w, << "/" >>)
    IN  DropEmpty([i \in 1..Len(pieces) |-> Join(pieces[i])])

Parent(p) == Slice(p, 1, Len(p) - 1)

IsDir(fs, p) == p = <<>> \/ p \in fs.dirs
IsFile(fs, p) == p \in DOMAIN fs.files
AncestorIsFile(fs, p) ==
    \E n \in 1..(Len(p) - 1) : IsFile(fs, Slice(p, 1, n))

FsOk(fs) == [fs |-> fs, err |-> ""]
FsErr(fs, e) == [fs |-> fs, err |-> e]

\* Path.mkdir(parents=parents, exist_ok=True)
RECURSIVE Mkdir(_, _, _)
Mkdir(fs, p, parents) ==
    IF IsDir(fs, p) THEN FsOk(fs)
    ELSE IF IsFile(fs, p) THEN FsErr(fs, "FileExistsError")
    ELSE IF AncestorIsFile(fs, p) THEN FsErr(fs, "NotADirectoryError")
    ELSE IF IsDir(fs, Parent(p))
         THEN FsOk([fs EXCEPT !.dirs = @ \cup {p}])
    ELSE IF ~parents THEN FsErr(fs, "FileNotFoundError")
    ELSE LET up == Mkdir(fs, Parent(p), TRUE)
         IN  IF up.err # "" THEN up
             ELSE FsOk([up.fs EXCEPT !.dirs = @ \cup {p}])

\* the file mapping with p set to content
WithFile(files, p, content) ==
    [q \in DOMAIN files \cup {p} |-> IF q = p THEN content ELSE files[q]]

\* Path.write_text(data) where data is a JSON value
WriteTextKeepMutant(fs, p, data) ==
    IF data.t # "str" THEN FsErr(fs, "TypeError")
    ELSE IF IsDir(fs, p) THEN FsErr(fs, "IsADirectoryError")
    ELSE IF AncestorIsFile(fs, p) THEN FsErr(fs, "NotADirectoryError")
    ELSE IF ~IsDir(fs, Parent(p)) THEN FsErr(fs, "FileNotFoundError")
    ELSE IF IsFile(fs, p) THEN FsOk(fs)
    ELSE FsOk([fs EXCEPT !.files = WithFile(@, p, data.v)])

WriteText(fs, p, data) ==
    IF data.t # "str" THEN FsErr(fs, "TypeError")
    ELSE IF IsDir(fs, p) THEN FsErr(fs, "IsADirectoryError")
    ELSE IF AncestorIsFile(fs, p) THEN FsErr(fs, "NotADirectoryError")
    ELSE IF ~IsDir(fs, Parent(p)) THEN FsErr(fs, "FileNotFoundError")
    ELSE FsOk([fs EXCEPT !.files = WithFile(@, p, data.v)])

\* the exceptions a filesystem step raises
IOErrors ==
    { "FileExistsError", "NotADirectoryError", "IsADirectoryError",
      "FileNotFoundError", "OSError" }

----------------------------------------------------------------------------
(* BuildResult and materialization (generate_code, generate_vision_project) *)

\* settings.esp32_projects_path as pathlib prints it
ProjectsRoot == "esp32_projects"
\* the value of an Optional field that is None
NoneStr == "<None>"

\* BuildResult(success=False)
NewBuildResult ==
    [ success |-> FALSE, has_path |-> FALSE, project_path |-> <<>>,
      code_files |-> JObj(<<>>), config |-> JObj(<<>>),
      platformio_ini |-> JStr(<<>>), error |-> NoneStr, build_log |-> <<>> ]

\* str.lower() on the words of project names
LowerWord(w) ==
    CASE w = "My" -> "my"
      [] w = "Lamp" -> "lamp"
      [] OTHER -> w

\* project_name.replace(" ", "_").lower()
Slug(name) ==
    [i \in 1..Len(name) |-> LowerWord(IF name[i] = " " THEN "_" ELSE name[i])]

\* self.projects_path / slug
ProjectPath(name) == Components(Slug(name))

\* str(path) as words
RECURSIVE PathTail(_)
PathTail(p) == IF p = <<>> THEN <<>> ELSE << "/", Head(p) >> \o PathTail(Tail(p))
PathWords(p) == << ProjectsRoot >> \o PathTail(p)

\* ", ".join(objects)
RECURSIVE CommaJoin(_)
CommaJoin(l) ==
    IF l = <<>> THEN <<>>
    ELSE IF Len(l) = 1 THEN << l[1] >>
    ELSE << l[1], ", " >> \o CommaJoin(Tail(l))

\* the except branch: result.error = str(e); build_log.append(f"Error: {e}")
FailedMutant(r, e) == r
Failed(r, e) ==
    [r EXCEPT !.error = e, !.build_log = Append(@, << "Error: ", e >>)]

\* the loop over code_files.items(): parent.mkdir(parents=True,
\* exist_ok=True) then write_text; k numbers the filesystem calls and the
\* call numbered faultAt fails in the environment (OSError)
WriteFilesFirstOnlyMutant(fs, root, members, i, k, faultAt) ==
    IF members = <<>> THEN [fs |-> fs, err |-> "", k |-> k]
    ELSE
      LET path == root \o Components(members[1].k)
          mk == Mkdir(fs, Parent(path), TRUE)
          wr == WriteText(mk.fs, path, members[1].x)
      IN  IF mk.err # "" THEN [fs |-> mk.fs, err |-> mk.err, k |-> k]
          ELSE [fs |-> wr.fs, err |-> wr.err, k |-> k + 2]

RECURSIVE WriteFiles(_, _, _, _, _, _)
WriteFiles(fs, root, members, i, k, faultAt) ==
    IF i > Len(members) THEN [fs |-> fs, err |-> "", k |-> k]
    ELSE
      LET path == root \o Components(members[i].k)
          mk == IF k = faultAt THEN FsErr(fs, "OSError")
                ELSE Mkdir(fs, Parent(path), TRUE)
      IN  IF mk.err # "" THEN [fs |-> mk.fs, err |-> mk.err, k |-> k]
          ELSE
            LET wr == IF k + 1 = faultAt THEN FsErr(mk.fs, "OSError")
                      ELSE WriteText(mk.fs, path, members[i].x)
            IN  IF wr.err # "" THEN [fs |-> wr.fs, err |-> wr.err, k |-> k + 1]
                ELSE WriteFiles(wr.fs, root, members, i + 1, k + 2, faultAt)

PlatformioIni == << "platformio.ini" >>

\* lines 534-550 and 418-435: r already carries code_files, platformio_ini
\* and config; okLines are the log lines of the success path
Materialize(fs, name, r, faultAt, okLines) ==
    LET project_path == ProjectPath(name)
        mk == IF faultAt = 1 THEN FsErr(fs, "OSError")
              ELSE Mkdir(fs, project_path, FALSE)
        r1 == [r EXCEPT !.has_path = TRUE, !.project_path = project_path]
    IN  IF mk.err # "" THEN [fs |-> mk.fs, result |-> Failed(r, mk.err)]
        ELSE IF r.code_files.t # "obj"
        THEN [fs |-> mk.fs, result |-> Failed(r1, "AttributeError")]
        ELSE
          LET wf == WriteFiles(mk.fs, project_path, r.code_files.v, 1, 2, faultAt)
          IN  IF wf.err # "" THEN [fs |-> wf.fs, result |-> Failed(r1, wf.err)]
              ELSE
                LET pio == IF ~Truthy(r.platformio_ini) THEN FsOk(wf.fs)
                           ELSE IF wf.k = faultAt THEN FsErr(wf.fs, "OSError")
                           ELSE WriteText(wf.fs, project_path \o PlatformioIni,
                                          r.platformio_ini)
                IN  IF pio.err # ""
                    THEN [fs |-> pio.fs, result |-> Failed(r1, pio.err)]
                    ELSE [fs |-> pio.fs,
                          result |-> [r1 EXCEPT !.success = TRUE,
                                                !.build_log = @ \o okLines]]

\* lines 528-531 and 410-414
WithParsed(r, parsed) ==
    [r EXCEPT !.code_files = Get(parsed, << "files" >>, JObj(<<>>)),
              !.platformio_ini = Get(parsed, << "platformio_ini" >>, JStr(<<>>)),
              !.config = Get(parsed, << "config" >>, JObj(<<>>))]

\* the outcome of one collaborator call: it raises or returns a reply text
Raises == [raised |-> TRUE, text |-> <<>>]
Replies(t) == [raised |-> FALSE, text |-> t]

\* a materialization m returned after n collaborator calls
Returned(m, n) == [fs |-> m.fs, result |-> m.result, calls |-> n]

\* generate_code after the collaborator call: raised tells whether it raised,
\* parsed is what _parse_generation_response made of its reply
GenerateFrom(fs, name, raised, parsed, faultAt) ==
    IF raised
    THEN [fs |-> fs, result |-> Failed(NewBuildResult, "APIError"), calls |-> 1]
    ELSE IF parsed.t # "obj"
    THEN [fs |-> fs, result |-> Failed(NewBuildResult, "AttributeError"),
          calls |-> 1]
    ELSE Returned(Materialize(fs, name, WithParsed(NewBuildResult, parsed),
                    faultAt,
                    << << "Project created at: " >>
                         \o PathWords(ProjectPath(name)) >>), 1)

\* ESP32Builder.generate_code; calls counts the collaborator calls made
generate_code(fs, name, outcome, faultAt) ==
    GenerateFrom(fs, name, outcome.raised,
                 _parse_generation_response(outcome.text), faultAt)

\* ESP32Builder.create_detection_model: a mapping, {} on any failure
create_detection_model(outcome) ==
    LET content == Candidate(Strip(outcome.text))
        loaded == JsonLoads(content)
    IN  IF outcome.raised \/ ~loaded.ok \/ loaded.val.t # "obj"
        THEN JObj(<<>>)
        ELSE loaded.val

\* _build_vision_prompt raises AttributeError when model_info is no mapping:
\* model_config.get('model_info', {}).get(...)
PromptRaises(model_config) ==
    Get(model_config, << "model_info" >>, JObj(<<>>)).t # "obj"

\* generate_vision_project from line 377 on (objects_to_detect is not empty);
\* escaped names the exception that leaves the operation, "" when the
\* operation returns the result
VisionRet(f, r, c, e) == [fs |-> f, result |-> r, calls |-> c, escaped |-> e]
VisionDone(m) == VisionRet(m.fs, m.result, 2, "")

\* generate_vision_project without line 413
VisionNoMergeMutant(fs, name, objects, model_config, raised, parsed, r1, faultAt) ==
    IF ~Truthy(model_config)
    THEN VisionRet(fs,
           [NewBuildResult EXCEPT
              !.error = "Failed to generate detection model"], 1, "")
    ELSE IF PromptRaises(model_config)
    THEN VisionRet(fs, NewBuildResult, 1, "AttributeError")
    ELSE IF raised THEN VisionRet(fs, Failed(NewBuildResult, "APIError"), 2, "")
    ELSE IF parsed.t # "obj"
    THEN VisionRet(fs, Failed(NewBuildResult, "AttributeError"), 2, "")
    ELSE IF r1.config.t # "obj"
    THEN VisionRet(fs, Failed(r1, "TypeError"), 2, "")
    ELSE VisionDone(
           Materialize(fs, name, r1, faultAt,
             << << "Vision project created at: " >>
                  \o PathWords(ProjectPath(name)),
                << "Objects to detect: " >> \o CommaJoin(objects) >>))

\* generate_vision_project after both collaborator calls: model_config is what
\* create_detection_model returned, r1 the result carrying the parsed reply
VisionFrom(fs, name, objects, model_config, raised, parsed, r1, faultAt) ==
    IF ~Truthy(model_config)
    THEN VisionRet(fs,
           [NewBuildResult EXCEPT
              !.error = "Failed to generate detection model"], 1, "")
    ELSE IF PromptRaises(model_config)
    THEN VisionRet(fs, NewBuildResult, 1, "AttributeError")
    ELSE IF raised THEN VisionRet(fs, Failed(NewBuildResult, "APIError"), 2, "")
    ELSE IF parsed.t # "obj"
    THEN VisionRet(fs, Failed(NewBuildResult, "AttributeError"), 2, "")
    ELSE IF r1.config.t # "obj"
    THEN VisionRet(fs, Failed(r1, "TypeError"), 2, "")
    ELSE VisionDone(
           Materialize(fs, name,
             [r1 EXCEPT !.config =
                JObj(DictSet(@.v, << "model_config" >>, model_config))],
             faultAt,
             << << "Vision project created at: " >>
                  \o PathWords(ProjectPath(name)),
                << "Objects to detect: " >> \o CommaJoin(objects) >>))

VisionParsed(fs, name, objects, model_config, raised, parsed, faultAt) ==
    VisionFrom(fs, name, objects, model_config, raised, parsed,
               WithParsed(NewBuildResult, parsed), faultAt)

VisionBuild(fs, name, objects, det, outcome, faultAt) ==
    VisionParsed(fs, name, objects, create_detection_model(det),
                 outcome.raised, _parse_generation_response(outcome.text),
                 faultAt)

\* ESP32Builder.generate_vision_project
VisionNoCheckMutant(fs, name, objects, det, outcome, faultAt) ==
    VisionBuild(fs, name, objects, det, outcome, faultAt)
generate_vision_project(fs, name, objects, det, outcome, faultAt) ==
    IF objects = <<>>
    THEN VisionRet(fs,
           [NewBuildResult EXCEPT !.error = "No objects specified for detection"],
           0, "")
    ELSE VisionBuild(fs, name, objects, det, outcome, faultAt)

----------------------------------------------------------------------------
(* Reply texts *)

Q == "\""
\* "k": as words
KeyWords(k) == << Q >> \o k \o << Q, ":" >>
StrWords(w) == << Q >> \o w \o << Q >>

FileA == << "a" >>
CodeX == << "x" >>

\* {"files":{"a":"x"}}
ObjFiles ==
    << "{" >> \o KeyWords(<< "files" >>) \o << "{" >> \o KeyWords(FileA)
       \o StrWords(CodeX) \o << "}", "}" >>
\* {"files":{"a":"x"},"platformio_ini":"x","config":{}}
ObjFull ==
    << "{" >> \o KeyWords(<< "files" >>) \o << "{" >> \o KeyWords(FileA)
       \o StrWords(CodeX) \o << "}", "," >> \o KeyWords(<< "platformio_ini" >>)
       \o StrWords(CodeX) \o << "," >> \o KeyWords(<< "config" >>)
       \o << "{", "}", "}" >>
\* {"files":null}
ObjFilesNull ==
    << "{" >> \o KeyWords(<< "files" >>) \o << "null", "}" >>

\* the pieces reply texts are assembled from
Chunks ==
    { << "Enjoy!" >>, << "\n" >>, FenceJson, Fence, << "{" >>, << "}" >>,
      << "[", "]" >>, ObjFiles, ObjFull, ObjFilesNull }

\* all concatenations of at most n chunks
RECURSIVE Texts(_)
Texts(n) ==
    IF n = 0 THEN { <<>> }
    ELSE LET T == Texts(n - 1) IN T \cup { t \o c : t \in T, c \in Chunks }

TextInputs == Texts(MaxChunks)

----------------------------------------------------------------------------
(* Collaborator replies of the build operations *)

\* json.dumps without spaces
RECURSIVE Dumps(_)
RECURSIVE DumpMembers(_, _)
RECURSIVE DumpElements(_, _)
Dumps(j) ==
    CASE j.t = "null" -> << "null" >>
      [] j.t = "num" -> j.v
      [] j.t = "str" -> StrWords(j.v)
      [] j.t = "obj" -> << "{" >> \o DumpMembers(j.v, 1) \o << "}" >>
      [] j.t = "list" -> << "[" >> \o DumpElements(j.v, 1) \o << "]" >>
DumpMembers(m, i) ==
    IF i > Len(m) THEN <<>>
    ELSE KeyWords(m[i].k) \o Dumps(m[i].x)
         \o (IF i < Len(m) THEN << "," >> ELSE <<>>) \o DumpMembers(m, i + 1)
DumpElements(l, i) ==
    IF i > Len(l) THEN <<>>
    ELSE Dumps(l[i])
         \o (IF i < Len(l) THEN << "," >> ELSE <<>>) \o DumpElements(l, i + 1)

Member(k, x) == [k |-> k, x |-> x]
MainCpp == << "src", "/", "main.cpp" >>
CodeY == << "y" >>
CodeAP == << "WiFi", ".", "softAP" >>

\* a manifest with the three keys
Manifest(files, ini, config) ==
    JObj(<< Member(<< "files" >>, JObj(files)),
            Member(<< "platformio_ini" >>, ini),
            Member(<< "config" >>, config) >>)

MfA == Manifest(<< Member(FileA, JStr(CodeY)) >>, JStr(<<>>), JObj(<<>>))
MfMain ==
    Manifest(<< Member(MainCpp, JStr(CodeAP)), Member(FileA, JStr(CodeX)) >>,
             JStr(CodeX), JObj(<<>>))
MfClash ==
    Manifest(<< Member(PlatformioIni, JStr(CodeY)) >>, JStr(CodeX), JObj(<<>>))
MfConflict ==
    JObj(<< Member(<< "files" >>,
              JObj(<< Member(<< "src" >>, JStr(CodeX)),
                      Member(MainCpp, JStr(CodeX)) >>)) >>)
MfNumContent ==
    JObj(<< Member(<< "files" >>, JObj(<< Member(FileA, JNum(<< "1" >>)) >>)) >>)
MfListConfig ==
    Manifest(<< Member(FileA, JStr(CodeX)) >>, JStr(<<>>), JList(<<>>))

ProjectReplies ==
    { FenceJson \o << "\n" >> \o Dumps(MfA) \o << "\n" >> \o Fence,
      << "Enjoy!", "\n" >> \o Dumps(MfMain) \o << "\n", "Enjoy!" >>,
      Dumps(MfClash), Dumps(MfConflict), Dumps(MfNumContent),
      Dumps(MfListConfig), ObjFilesNull, << "[", "]" >>, << "Enjoy!" >> }

DetGood ==
    JObj(<< Member(<< "model_info" >>,
              JObj(<< Member(<< "type" >>, JStr(CodeX)) >>)) >>)
DetNoInfo == JObj(<< Member(<< "files" >>, JObj(<<>>)) >>)
DetBadInfo == JObj(<< Member(<< "model_info" >>, JNull) >>)

DetectionReplies ==
    { FenceJson \o << "\n" >> \o Dumps(DetGood) \o << "\n" >> \o Fence,
      Dumps(DetNoInfo), Dumps(DetBadInfo), << "{", "}" >> }

\* a manifest whose config has an entry
MfConfig ==
    Manifest(<< Member(FileA, JStr(CodeX)) >>, JStr(<<>>),
             JObj(<< Member(<< "board" >>, JStr(CodeX)) >>))

\* the project replies tried after a detection-model reply
VisionReplies ==
    { << "Enjoy!", "\n" >> \o Dumps(MfMain) \o << "\n", "Enjoy!" >>,
      Dumps(MfConfig),
      Dumps(MfListConfig), << "[", "]" >> }

ProjectOutcomes == { Raises } \cup { Replies(t) : t \in ProjectReplies }
DetectionOutcomes == { Raises } \cup { Replies(t) : t \in DetectionReplies }
VisionOutcomes == { Raises } \cup { Replies(t) : t \in VisionReplies }

Names == { << "Lamp" >>, << "My", " ", "Lamp" >> }
ObjectLists == { <<>>, << "cat" >>, << "cat", "dog" >> }
\* the filesystem call the environment fails: none, the project mkdir, the
\* first write_text
FaultPoints == { 0, 1, 3 }

----------------------------------------------------------------------------
(* Hardware bridge: port discovery (list_ports, detect_esp32) *)

\* a port as serial.tools.list_ports.comports() reports it: vid = NoVid is
\* the vid None of a port that is no USB device
NoVid == -1
HexChars ==
    << "0", "1", "2", "3", "4", "5", "6", "7", "8", "9",
       "a", "b", "c", "d", "e", "f" >>

RECURSIVE HexDigits(_)
HexDigits(n) ==
    IF n < 16 THEN << HexChars[n + 1] >>
    ELSE HexDigits(n \div 16) \o << HexChars[(n % 16) + 1] >>

\* hex(n)
Hex(n) == << "0", "x" >> \o HexDigits(n)

\* str.lower() on the words of descriptions and device paths
LowerPortWord(w) ==
    CASE w = "CP210" -> "cp210"
      [] w = "USB" -> "usb"
      [] w = "UART" -> "uart"
      [] w = "Serial" -> "serial"
      [] w = "Bluetooth" -> "bluetooth"
      [] w = "ttyUSB0" -> "ttyusb0"
      [] w = "ttyUSB1" -> "ttyusb1"
      [] w = "ttyS0" -> "ttys0"
      [] OTHER -> w
LowerPort(s) == [i \in 1..Len(s) |-> LowerPortWord(s[i])]

\* list_ports: the entries, or the TypeError of hex(None)
list_ports(comports) ==
    IF \E i \in 1..Len(comports) :
          comports[i].has_vid /\ comports[i].vid = NoVid
    THEN [raised |-> "TypeError", ports |-> <<>>]
    ELSE [raised |-> "",
          ports |-> [i \in 1..Len(comports) |->
                       [device |-> comports[i].device,
                        description |-> comports[i].description,
                        vid |-> IF comports[i].has_vid
                                THEN Hex(comports[i].vid)
                                ELSE << "0", "0", "0", "0" >>]]]

\* esp32_vids, line 35
esp32_vids ==
    { << "0", "x", "1", "0", "c", "4" >>, << "0", "x", "1", "a", "8", "6" >>,
      << "0", "x", "0", "4", "0", "3" >>, << "0", "x", "3", "0", "3", "a" >> }
DescriptionNeedles ==
    { << "ch340" >>, << "cp210" >>, << "ft232" >>, << "usb", " ", "serial" >>,
      << "uart" >> }

\* the test of lines 40-42
LikelyEsp32(port) ==
    \/ \E vid \in esp32_vids : Contains(port.vid, vid)
    \/ \E n \in DescriptionNeedles : Contains(LowerPort(port.description), n)

UsbSerialDevice(port) == Contains(LowerPort(port.device), << "usbserial" >>)

\* the first index of a sequence of booleans that is TRUE, 0 when none is
FirstTrue(flags) ==
    IF \E i \in 1..Len(flags) : flags[i]
    THEN CHOOSE i \in 1..Len(flags) :
            flags[i] /\ \A j \in 1..(i - 1) : ~flags[j]
    ELSE 0

NoDevice == << >>

\* detect_esp32: [raised, device]; device = NoDevice is None
detect_esp32(comports) ==
    LET lp == list_ports(comports)
        first == FirstTrue([i \in 1..Len(lp.ports) |-> LikelyEsp32(lp.ports[i])])
        second == FirstTrue([i \in 1..Len(lp.ports) |-> UsbSerialDevice(lp.ports[i])])
    IN  IF lp.raised # "" THEN [raised |-> lp.raised, device |-> NoDevice]
        ELSE IF first # 0
        THEN [raised |-> "", device |-> lp.ports[first].device]
        ELSE IF second # 0
        THEN [raised |-> "", device |-> lp.ports[second].device]
        ELSE [raised |-> "", device |-> NoDevice]

PortInfo(device, description, has_vid, vid) ==
    [device |-> device, description |-> description, has_vid |-> has_vid,
     vid |-> vid]
DevUSB0 == << "/dev/", "ttyUSB0" >>
DevUSB1 == << "/dev/", "ttyUSB1" >>
DevMac == << "/dev/", "cu.", "usbserial", "-1" >>
\* a CP2102 bridge, vendor id 0x10c4
PortCP ==
    PortInfo(DevUSB0, << "CP210", "2", " ", "USB", " ", "to", " ", "UART" >>,
             TRUE, 4292)
\* an FTDI bridge, vendor id 0x0403, with a description that names no chip
PortFTDI == PortInfo(DevUSB1, << "n/a" >>, TRUE, 1027)
\* an unknown vendor on a device path of the usbserial convention
PortMac == PortInfo(DevMac, << "n/a" >>, TRUE, 4660)
\* an on-board UART, no USB device: vid is None
PortS0 == PortInfo(<< "/dev/", "ttyS0" >>, << "ttyS0" >>, TRUE, NoVid)
\* a port object without a vid attribute
PortBT == PortInfo(<< "/dev/", "cu.", "Bluetooth" >>, << "n/a" >>, FALSE, NoVid)

----------------------------------------------------------------------------
(* Hardware bridge: the connection slot (connect, disconnect)               *)
(* A bridge is [slot, open, conns]: conns lists the device of every         *)
(* serial.Serial object created so far (the object's id is its index), open *)
(* is the set of ids that were opened and that no close() call of the       *)
(* bridge has closed, slot is self.serial_conn (0 for None).                *)

NewBridge == [slot |-> 0, open |-> {}, conns |-> <<>>]

\* how serial.Serial(...) and the DTR handshake turn out
OpenOutcomes == { "ok", "openfail", "dtrfail" }

ConnectRet(hw, ok, escaped) == [hw |-> hw, ok |-> ok, escaped |-> escaped]

\* connect(port) from line 60 on, port is a device
OpenPort(hw, port, how) ==
    IF how = "openfail" THEN ConnectRet(hw, FALSE, "")
    ELSE LET id == Len(hw.conns) + 1
             hw2 == [slot |-> id, open |-> hw.open \cup {id},
                     conns |-> Append(hw.conns, port)]
         IN  ConnectRet(hw2, how = "ok", "")

\* ESP32Hardware.connect(port); port = NoDevice is None
connect(hw, port, comports, how) ==
    LET found == detect_esp32(comports) IN
    IF port # NoDevice THEN OpenPort(hw, port, how)
    ELSE IF found.raised # "" THEN ConnectRet(hw, FALSE, found.raised)
    ELSE IF found.device = NoDevice THEN ConnectRet(hw, FALSE, "")
    ELSE OpenPort(hw, found.device, how)

\* ESP32Hardware.disconnect
DisconnectKeepSlotMutant(hw) == [hw EXCEPT !.open = @ \ {hw.slot}]
disconnect(hw) == [hw EXCEPT !.open = @ \ {hw.slot}, !.slot = 0]

----------------------------------------------------------------------------
(* Hardware bridge: read_serial, run_test, monitor_serial                   *)

\* what one poll of the input buffer finds: nothing waiting, a serial error,
\* or a decoded and stripped line (<<>> for a blank line)
NoData == [k |-> "none", line |-> <<>>]
SerialError == [k |-> "error", line |-> <<>>]
Line(l) == [k |-> "line", line |-> l]
SerialLines ==
    { << "boot" >>, << "PASS" >>, << "FAIL" >>, << "ok", " ", "error" >> }
PollEvents == { NoData, SerialError, Line(<<>>) } \cup { Line(l) : l \in SerialLines }

\* one pass of the while loop of read_serial, lines 173-181: done when the
\* duration has elapsed or the bare except breaks the loop
ReadIterNoBreakMutant(hw, lines, timeUp, ev) ==
    IF timeUp THEN [lines |-> lines, done |-> TRUE]
    ELSE IF ev.k = "line" /\ ev.line # <<>>
    THEN [lines |-> Append(lines, ev.line), done |-> FALSE]
    ELSE [lines |-> lines, done |-> FALSE]

ReadIter(hw, lines, timeUp, ev) ==
    IF timeUp THEN [lines |-> lines, done |-> TRUE]
    ELSE IF hw.slot = 0 \/ hw.slot \notin hw.open \/ ev.k = "error"
    THEN [lines |-> lines, done |-> TRUE]
    ELSE IF ev.k = "line" /\ ev.line # <<>>
    THEN [lines |-> Append(lines, ev.line), done |-> FALSE]
    ELSE [lines |-> lines, done |-> FALSE]

\* str.upper() on the words of serial lines
UpperWord(w) ==
    CASE w = "boot" -> "BOOT"
      [] w = "ok" -> "OK"
      [] w = "error" -> "ERROR"
      [] OTHER -> w
Upper(l) == [i \in 1..Len(l) |-> UpperWord(l[i])]

\* the for loop of run_test, lines 208-213
RECURSIVE ScanLines(_, _, _)
ScanLines(output, i, passed) ==
    IF i > Len(output) THEN passed
    ELSE IF Contains(Upper(output[i]), << "PASS" >>)
            \/ Contains(Upper(output[i]), << "OK" >>)
    THEN ScanLines(output, i + 1, TRUE)
    ELSE IF Contains(Upper(output[i]), << "FAIL" >>)
            \/ Contains(Upper(output[i]), << "ERROR" >>)
    THEN FALSE
    ELSE ScanLines(output, i + 1, passed)

\* what a hardware operation handed back to its caller: ok is connect's
\* boolean and run_test's success, lines is read_serial's list and run_test's
\* output, how tells how monitor_serial ended, escaped names the exception
\* that left the operation, disconnects counts the disconnect() calls the
\* operation made and closed is the connection the last of them closed
HwReturn(op) ==
    [ op |-> op, ok |-> FALSE, lines |-> <<>>, test_passed |-> FALSE,
      error |-> NoneStr, escaped |-> "", how |-> "", disconnects |-> 0,
      closed |-> 0 ]

----------------------------------------------------------------------------
(* Hardware bridge: upload_firmware, upload_with_platformio                 *)

\* a pathlib path: absolute or relative, with its components
FsPath(abs, parts) == [abs |-> abs, parts |-> parts]
RECURSIVE SlashJoin(_)
SlashJoin(parts) ==
    IF parts = <<>> THEN ""
    ELSE IF Len(parts) = 1 THEN parts[1]
    ELSE parts[1] \o "/" \o SlashJoin(Tail(parts))
\* str(path)
PathStr(p) ==
    IF p.abs THEN "/" \o SlashJoin(p.parts)
    ELSE IF p.parts = <<>> THEN "."
    ELSE SlashJoin(p.parts)
\* path.parent
PathParent(p) == [p EXCEPT !.parts = Parent(@)]

\* how subprocess.run turns out: the tool exits, the timeout expires, the
\* binary is missing, or another OSError
Exit(code, out, err) == [k |-> "exit", code |-> code, stdout |-> out, stderr |-> err]
Timeout == [k |-> "timeout", code |-> 0, stdout |-> "", stderr |-> ""]
NotFound == [k |-> "notfound", code |-> 0, stdout |-> "", stderr |-> ""]
Denied == [k |-> "oserror", code |-> 0, stdout |-> "", stderr |-> ""]
RunOutcomes ==
    { Exit(0, "done", ""), Exit(1, "", "boom"), Exit(2, "", ""), Timeout,
      NotFound, Denied }

\* str(e) of the exception of an outcome
ExcStr(o) ==
    CASE o.k = "timeout" -> "TimeoutExpired"
      [] o.k = "notfound" -> "FileNotFoundError"
      [] OTHER -> "PermissionError"

\* the dict of the early returns: success and error only
ShortResult(error) ==
    [ keys |-> { "success", "error" }, success |-> FALSE, stdout |-> NoneStr,
      stderr |-> NoneStr, port |-> NoneStr, error |-> error ]
\* the dict built from a finished tool run
FullResult(o, port, error) ==
    [ keys |-> { "success", "stdout", "stderr", "port", "error" },
      success |-> o.code = 0, stdout |-> o.stdout, stderr |-> o.stderr,
      port |-> port, error |-> error ]

NoCwd == "<inherit>"
Invocation(cmd, cwd, timeout) == [cmd |-> cmd, cwd |-> cwd, timeout |-> timeout]

\* upload_with_platformio(firmware_path, port)
upload_with_platformio(firmware_path, port, secondary) ==
    LET run == Invocation(<< "platformio", "run", "--target", "upload",
                             "--upload-port", port >>,
                          PathStr(PathParent(PathParent(firmware_path))), 120)
    IN  [ tools |-> << run >>,
          ret |-> IF secondary.k = "exit"
                  THEN FullResult(secondary, port,
                         IF secondary.code # 0 THEN secondary.stderr
                         ELSE NoneStr)
                  ELSE ShortResult(ExcStr(secondary)) ]

\* upload_firmware(firmware_path, port): the result, the tools run in order,
\* and the exception that leaves the operation ("" when it returns)
UploadFallbackOnTimeoutMutant(firmware_path, port, comports, primary, secondary) ==
    LET found == detect_esp32(comports)
        dev == IF port # NoDevice THEN Join(port) ELSE Join(found.device)
        run == Invocation(<< "esptool.py", "--chip", "esp32", "--port", dev,
                             "--baud", "460800", "write_flash", "0x10000",
                             PathStr(firmware_path) >>, NoCwd, 60)
        fb == upload_with_platformio(firmware_path, dev, secondary)
    IN  IF port = NoDevice /\ found.raised # ""
        THEN [ret |-> ShortResult(NoneStr), tools |-> <<>>,
              escaped |-> found.raised]
        ELSE IF port = NoDevice /\ found.device = NoDevice
        THEN [ret |-> ShortResult("No ESP32 detected"), tools |-> <<>>,
              escaped |-> ""]
        ELSE IF primary.k = "exit"
        THEN [ret |-> FullResult(primary, dev,
                        IF primary.code = 0 THEN NoneStr ELSE primary.stderr),
              tools |-> << run >>, escaped |-> ""]
        ELSE IF primary.k \in { "notfound", "timeout" }
        THEN [ret |-> fb.ret, tools |-> << run >> \o fb.tools, escaped |-> ""]
        ELSE [ret |-> ShortResult(ExcStr(primary)), tools |-> << run >>,
              escaped |-> ""]
upload_firmware(firmware_path, port, comports, primary, secondary) ==
    LET found == detect_esp32(comports)
        dev == IF port # NoDevice THEN Join(port) ELSE Join(found.device)
        run == Invocation(<< "esptool.py", "--chip", "esp32", "--port", dev,
                             "--baud", "460800", "write_flash", "0x10000",
                             PathStr(firmware_path) >>, NoCwd, 60)
        fb == upload_with_platformio(firmware_path, dev, secondary)
    IN  IF port = NoDevice /\ found.raised # ""
        THEN [ret |-> ShortResult(NoneStr), tools |-> <<>>,
              escaped |-> found.raised]
        ELSE IF port = NoDevice /\ found.device = NoDevice
        THEN [ret |-> ShortResult("No ESP32 detected"), tools |-> <<>>,
              escaped |-> ""]
        ELSE IF primary.k = "exit"
        THEN [ret |-> FullResult(primary, dev,
                        IF primary.code = 0 THEN NoneStr ELSE primary.stderr),
              tools |-> << run >>, escaped |-> ""]
        ELSE IF primary.k = "timeout"
        THEN [ret |-> ShortResult("Upload timeout"), tools |-> << run >>,
              escaped |-> ""]
        ELSE IF primary.k = "notfound"
        THEN [ret |-> fb.ret, tools |-> << run >> \o fb.tools, escaped |-> ""]
        ELSE [ret |-> ShortResult(ExcStr(primary)), tools |-> << run >>,
              escaped |-> ""]

FirmwarePaths ==
    { FsPath(FALSE, << "proj", ".pio", "firmware.bin" >>),
      FsPath(FALSE, << "firmware.bin" >>),
      FsPath(TRUE, << "srv", "proj", "build", "fw.bin" >>),
      FsPath(TRUE, << "fw.bin" >>) }
\* the port enumerations the host may report
PortLists ==
    { <<>>, << PortCP >>, << PortBT, PortCP >>, << PortMac, PortCP >>,
      << PortFTDI >>, << PortMac >>, << PortS0, PortCP >> }
\* the enumerations tried when an operation of the bridge connects
BridgePortLists == { <<>>, << PortCP >>, << PortS0, PortCP >> }

----------------------------------------------------------------------------
(* ESP32Simulator.  The source text is a sequence of words, as file contents *)
(* are; a substring test is a test for a run of words.                      *)

\* f"{x}"
PyStr(x) == IF x = NoneStr THEN "None" ELSE x

\* Path.name
PathName(p) == IF p = <<>> THEN ProjectsRoot ELSE p[Len(p)]

\* Path.exists()
Exists(fs, p) == (IsDir(fs, p) \/ IsFile(fs, p)) /\ ~AncestorIsFile(fs, p)

\* a dict with key set to x
WithKey(reg, key, x) ==
    [k \in DOMAIN reg \cup {key} |-> IF k = key THEN x ELSE reg[k]]
\* a dict without key
WithoutKey(reg, key) == [k \in DOMAIN reg \ {key} |-> reg[k]]

\* the dict of lines 663-672; has_wifi is FALSE while the dict has no such key
NewSimulation(project_name, board_type, now) ==
    [ project_name |-> project_name, board_type |-> board_type,
      status |-> "starting", ip_address |-> NoneStr, ap_ssid |-> NoneStr,
      web_server |-> FALSE, has_wifi |-> FALSE, logs |-> <<>>,
      started_at |-> now ]
NoSimulation == NewSimulation(NoneStr, NoneStr, NoneStr)

HasWifi(code) == Contains(code, << "WiFi" >>) \/ Contains(code, << "WIFI" >>)
HasAP(code) ==
    Contains(code, << "WiFi", ".", "softAP" >>) \/ Contains(code, << "softAP" >>)
HasWebServer(code) ==
    \/ Contains(code, << "WebServer" >>)
    \/ Contains(code, << "server", ".", "begin" >>)
    \/ Contains(code, << "HTTPServer" >>)

\* lines 696-704
RunningLogs(sim) ==
    << "Simulation started successfully", "Board: " \o sim.board_type >>
    \o (IF sim.ip_address # NoneStr
        THEN << "IP Address: " \o sim.ip_address >> ELSE <<>>)
    \o (IF sim.ap_ssid # NoneStr
        THEN << "AP SSID: " \o sim.ap_ssid >> ELSE <<>>)
    \o (IF sim.web_server
        THEN << "Web server running on http://" \o PyStr(sim.ip_address) >>
        ELSE <<>>)

\* lines 682-704: the session for a source text
AnalyzeWifiLastMutant(sim, code) ==
    LET s1 == IF HasAP(code)
              THEN [sim EXCEPT !.ap_ssid = sim.project_name \o "_AP",
                               !.ip_address = "192.168.4.1"]
              ELSE sim
        s2 == IF HasWifi(code)
              THEN [s1 EXCEPT !.has_wifi = TRUE, !.ip_address = "192.168.1.100"]
              ELSE s1
        s3 == IF HasWebServer(code) THEN [s2 EXCEPT !.web_server = TRUE] ELSE s2
        s4 == [s3 EXCEPT !.status = "running"]
    IN  [s4 EXCEPT !.logs = sim.logs \o RunningLogs(s4)]
Analyze(sim, code) ==
    LET s1 == IF HasWifi(code)
              THEN [sim EXCEPT !.has_wifi = TRUE, !.ip_address = "192.168.1.100"]
              ELSE sim
        s2 == IF HasAP(code)
              THEN [s1 EXCEPT !.ap_ssid = sim.project_name \o "_AP",
                              !.ip_address = "192.168.4.1"]
              ELSE s1
        s3 == IF HasWebServer(code) THEN [s2 EXCEPT !.web_server = TRUE] ELSE s2
        s4 == [s3 EXCEPT !.status = "running"]
    IN  [s4 EXCEPT !.logs = sim.logs \o RunningLogs(s4)]

\* simulate_project without its else branch (lines 705-707)
SimulateNoElseMutant(fs, reg, project_path, board_type, now) ==
    LET project_name == PathName(project_path)
        simulation == NewSimulation(project_name, board_type, now)
        main_cpp == project_path \o << "src", "main.cpp" >>
        final ==
            IF ~Exists(fs, main_cpp) \/ IsDir(fs, main_cpp) THEN simulation
            ELSE Analyze(simulation, fs.files[main_cpp])
    IN  [ reg |-> WithKey(reg, project_name, final),
          session |-> final,
          escaped |-> IF Exists(fs, main_cpp) /\ IsDir(fs, main_cpp)
                      THEN "IsADirectoryError" ELSE "" ]

\* simulate_project that updates the session the registry already holds
SimulateIncrementalMutant(fs, reg, project_path, board_type, now) ==
    LET project_name == PathName(project_path)
        simulation ==
            IF project_name \in DOMAIN reg
            THEN [reg[project_name] EXCEPT !.board_type = board_type,
                                           !.status = "starting",
                                           !.started_at = now]
            ELSE NewSimulation(project_name, board_type, now)
        main_cpp == project_path \o << "src", "main.cpp" >>
        final ==
            IF ~Exists(fs, main_cpp)
            THEN [simulation EXCEPT
                    !.status = "error",
                    !.logs = @ \o << "Error: main.cpp not found" >>]
            ELSE IF IsDir(fs, main_cpp) THEN simulation
            ELSE Analyze(simulation, fs.files[main_cpp])
    IN  [ reg |-> WithKey(reg, project_name, final),
          session |-> final,
          escaped |-> IF Exists(fs, main_cpp) /\ IsDir(fs, main_cpp)
                      THEN "IsADirectoryError" ELSE "" ]

\* ESP32Simulator.simulate_project(project_path, board_type): the registry
\* afterwards, the session returned and the exception that leaves the
\* operation ("" when it returns).  The session returned is the object the
\* registry holds.
simulate_project(fs, reg, project_path, board_type, now) ==
    LET project_name == PathName(project_path)
        simulation == NewSimulation(project_name, board_type, now)
        main_cpp == project_path \o << "src", "main.cpp" >>
        final ==
            IF ~Exists(fs, main_cpp)
            THEN [simulation EXCEPT
                    !.status = "error",
                    !.logs = << "Error: main.cpp not found" >>]
            ELSE IF IsDir(fs, main_cpp) THEN simulation
            ELSE Analyze(simulation, fs.files[main_cpp])
    IN  [ reg |-> WithKey(reg, project_name, final),
          session |-> final,
          escaped |-> IF Exists(fs, main_cpp) /\ IsDir(fs, main_cpp)
                      THEN "IsADirectoryError" ELSE "" ]

\* ESP32Simulator.get_simulation(project_name): None is NoSimulation
get_simulation(reg, project_name) ==
    IF project_name \in DOMAIN reg THEN reg[project_name] ELSE NoSimulation

\* a stop that empties the registry
StopClearsAllMutant(reg, project_name) ==
    IF project_name \in DOMAIN reg
    THEN [reg |-> <<>>, stopped |-> TRUE]
    ELSE [reg |-> reg, stopped |-> FALSE]

\* ESP32Simulator.stop_simulation(project_name)
stop_simulation(reg, project_name) ==
    IF project_name \in DOMAIN reg
    THEN [reg |-> WithoutKey(reg, project_name), stopped |-> TRUE]
    ELSE [reg |-> reg, stopped |-> FALSE]

\* source texts of the simulated projects
CodeSoftAP == << "softAP" >>
CodeWifi == << "WIFI", " ", "x" >>
CodeWeb == << "WiFi", ".", "softAP", " ", "server", ".", "begin" >>
MainDir == << "src", "/", "main.cpp", "/", "a" >>
MfCode(code) == Manifest(<< Member(MainCpp, JStr(code)) >>, JStr(<<>>), JObj(<<>>))
MfMainDir == Manifest(<< Member(MainDir, JStr(CodeX)) >>, JStr(<<>>), JObj(<<>>))
SimReplies ==
    { Dumps(MfCode(c)) : c \in { CodeX, CodeSoftAP, CodeWifi, CodeWeb } }
    \cup { Dumps(MfA), Dumps(MfMainDir) }
SimOutcomes == { Replies(t) : t \in SimReplies }
BoardTypes == { "esp32", "esp32s3" }
Clock == { "2026-01-01T00:00:00" }
\* the names get and stop are asked for
SimKeys == { Join(n) : n \in Names } \cup { Join(Slug(n)) : n \in Names }

----------------------------------------------------------------------------
(* validators.py.  A name is a sequence of words; a word is valid in a name *)
(* when all its characters are letters, digits, "_", "-" or spaces.         *)

\* the words whose characters all match [a-zA-Z0-9_\- ]
NameWordsOk == { "My", "Lamp", " ", "_", "-" }
\* name.strip() is empty
BlankName(name) == Strip(name) = <<>>
\* len(w): every word of a name but these two is one character
WordLen(w) ==
    CASE w = "My" -> 2
      [] w = "Lamp" -> 4
      [] OTHER -> 1
\* len(name)
RECURSIVE NameLen(_)
NameLen(name) ==
    IF name = <<>> THEN 0 ELSE WordLen(Head(name)) + NameLen(Tail(name))
\* what the pattern ^[a-zA-Z0-9_\- ]+$ is matched against: $ also matches
\* before one newline at the end
BeforeLastNewline(name) ==
    IF name # <<>> /\ name[Len(name)] = "\n"
    THEN Slice(name, 1, Len(name) - 1) ELSE name
\* what a validator does: raised is the message of the ValidationError it
\* raises, "" when it returns value
Invalid(message) == [raised |-> message, value |-> <<>>]
Valid(value) == [raised |-> "", value |-> value]

\* validate_project_name(name), lines 11-23
validate_project_name(name) ==
    IF BlankName(name) THEN Invalid("Project name cannot be empty")
    ELSE IF NameLen(name) > 100
    THEN Invalid("Project name too long (max 100 characters)")
    ELSE IF \/ BeforeLastNewline(name) = <<>>
            \/ \E i \in 1..Len(BeforeLastNewline(name)) :
                  BeforeLastNewline(name)[i] \notin NameWordsOk
    THEN Invalid("Project name contains invalid characters")
    ELSE Valid(Strip(name))

\* board.lower().strip()
LowerBoard(board) ==
    CASE board = "ESP32-S3" -> "esp32-s3"
      [] board = "ESP32" -> "esp32"
      [] board = " esp32 " -> "esp32"
      [] OTHER -> board
valid_boards ==
    { "esp32", "esp32s2", "esp32s3", "esp32c3", "esp32c6", "esp32-c3",
      "esp32-c6", "esp32-s2", "esp32-s3" }
\* validate_esp32_board(board), lines 26-45
validate_esp32_board(board) ==
    IF LowerBoard(board) \notin valid_boards
    THEN Invalid("Invalid board type. Must be one of: esp32, esp32s2, esp32s3, esp32c3, esp32c6, esp32-c3, esp32-c6, esp32-s2, esp32-s3")
    ELSE Valid(LowerBoard(board))

\* a name of 104 characters
LongName == [i \in 1..26 |-> "Lamp"]
\* the project names and boards of build requests
RequestNames == Names \cup { <<>>, << " " >>, << "Lamp", "!" >>, LongName }
RequestBoards == { "esp32", "ESP32-S3", "arduino" }

----------------------------------------------------------------------------
(* ESP32Builder.chat_conversation.  The dict returned is [message,           *)
(* projectSpec, needsInput]; message and projectSpec are JSON values, None   *)
(* is JNull.                                                                  *)

MaxChatChunks == 2

ChatReturn(message, projectSpec, needsInput) ==
    [ message |-> message, projectSpec |-> projectSpec,
      needsInput |-> needsInput ]

\* the outer except branch, lines 147-152
ChatError(e) ==
    ChatReturn(JStr(<< "I encountered an error: ", e, ". Please try again." >>),
               JNull, TRUE)

\* lines 111-115: the text handed to json.loads
JsonContent(content) ==
    IF Contains(content, FenceJson)
    THEN Strip(Piece(Piece(content, FenceJson, 2), Fence, 1))
    ELSE IF Contains(content, Fence)
    THEN Strip(Piece(Piece(content, Fence, 2), Fence, 1))
    ELSE content

\* the values the in operator accepts on its right
Iterable(j) == j.t \in { "obj", "list", "str" }
\* key in j for an iterable j
PyIn(key, j) ==
    CASE j.t = "obj" -> HasKey(j, key)
      [] j.t = "list" -> \E i \in 1..Len(j.v) : j.v[i] = JStr(key)
      [] j.t = "str" -> Contains(j.v, key)

KeyProjectSpec == << "projectSpec" >>
KeyMessage == << "message" >>

\* lines 117-135: parsed is what json.loads returned
ChatParsed(content, parsed) ==
    IF ~Iterable(parsed) THEN ChatError("TypeError")
    ELSE IF PyIn(KeyProjectSpec, parsed)
    THEN IF parsed.t # "obj" THEN ChatError("AttributeError")
         ELSE ChatReturn(Get(parsed, KeyMessage, JStr(content)),
                         Get(parsed, KeyProjectSpec, JNull), FALSE)
    ELSE IF PyIn(KeyMessage, parsed)
    THEN IF parsed.t # "obj" THEN ChatError("TypeError")
         ELSE ChatReturn(Get(parsed, KeyMessage, JNull), JNull, TRUE)
    ELSE ChatReturn(JStr(content), JNull, TRUE)

\* lines 108-145: content is the stripped reply, loaded what json.loads made
\* of its candidate
ChatFrom(content, loaded) ==
    IF ~loaded.ok THEN ChatReturn(JStr(content), JNull, TRUE)
    ELSE ChatParsed(content, loaded.val)

ChatStripped(content) == ChatFrom(content, JsonLoads(JsonContent(content)))

\* ESP32Builder.chat_conversation(message, history) for one collaborator
\* outcome
chat_conversation(outcome) ==
    IF outcome.raised THEN ChatError("APIError")
    ELSE ChatStripped(Strip(outcome.text))

\* replies of the conversation collaborator
SpecObj == JObj(<< Member(<< "projectName" >>, JStr(CodeX)) >>)
ChatChunks ==
    { << "Enjoy!" >>, << " " >>, FenceJson, Fence,
      Dumps(JObj(<< Member(KeyMessage, JStr(CodeY)),
                    Member(KeyProjectSpec, SpecObj) >>)),
      Dumps(JObj(<< Member(KeyProjectSpec, SpecObj) >>)),
      Dumps(JObj(<< Member(KeyProjectSpec, JNull) >>)),
      Dumps(JObj(<< Member(KeyMessage, JStr(CodeY)) >>)),
      Dumps(JObj(<< Member(<< "files" >>, JObj(<<>>)) >>)),
      << "null" >>, << "1" >>, << "[", "]" >>,
      Dumps(JList(<< JStr(KeyMessage) >>)),
      Dumps(JList(<< JStr(KeyProjectSpec) >>)),
      StrWords(KeyMessage), StrWords(CodeX) }

RECURSIVE ChatTexts(_)
ChatTexts(n) ==
    IF n = 0 THEN { <<>> }
    ELSE LET T == ChatTexts(n - 1)
         IN  T \cup { t \o c : t \in T, c \in ChatChunks }

ChatOutcomes ==
    { Raises } \cup { Replies(t) : t \in ChatTexts(MaxChatChunks) }

----------------------------------------------------------------------------
(* State *)

VARIABLES
    text,       \* extract: the reply text handed to extract
    manifest,   \* extract: the value extract returned for text
    exPc,       \* extract: "ready" before the call, "done" after it
    disk,       \* the file system below the projects root
    calls,      \* collaborator calls made so far
    result,     \* the BuildResult the last build operation returned
    lastOp,     \* the last build operation: its inputs, calls and exception
    hw,         \* the bridge: serial_conn and the serial objects it opened
    proc,       \* the readSerial, runTest or monitor call that is suspended
    hwRet,      \* what the last step of a bridge operation returned
    interrupted, \* history: the lines the suspended readSerial call held
                \* when another caller's disconnect emptied the slot
    upCall,     \* the last upload call: its inputs and the tools it ran
    upRet,      \* the dict the last upload call returned
    sims,       \* ESP32Simulator.active_simulations
    simRet,     \* what the last simulation request returned
    chatReply,  \* converse: what the collaborator call did
    chatRet     \* converse: the dict chat_conversation returned

exVars == << text, manifest, exPc >>
buildVars == << disk, calls, result, lastOp >>
hwVars == << hw, proc, hwRet, interrupted >>
upVars == << upCall, upRet >>
simVars == << sims, simRet >>
chatVars == << chatReply, chatRet >>
vars == << exVars, buildVars, hwVars, upVars, simVars, chatVars >>

NoOp ==
    [ op |-> "none", name |-> <<>>, objects |-> <<>>, outcome |-> Raises,
      det |-> Raises, calls |-> 0, escaped |-> "", asked |-> <<>>,
      board |-> "" ]
NoProc == [kind |-> "none", lines |-> <<>>, polls |-> 0]
NoUpload ==
    [ firmware_path |-> FsPath(FALSE, <<>>), port |-> NoDevice,
      comports |-> <<>>, primary |-> NotFound, secondary |-> NotFound,
      tools |-> <<>>, escaped |-> "", done |-> FALSE ]

ExIdle == text = <<>> /\ manifest = JNull /\ exPc = "idle"
BuildIdle ==
    /\ disk = [dirs |-> {}, files |-> <<>>]
    /\ calls = 0
    /\ result = NewBuildResult
    /\ lastOp = NoOp
\* no disconnect of another caller has run during the suspended call
NotInterrupted == [cut |-> FALSE, lines |-> <<>>]
HwIdle ==
    /\ hw = NewBridge /\ proc = NoProc /\ hwRet = HwReturn("none")
    /\ interrupted = NotInterrupted
UpIdle == upCall = NoUpload /\ upRet = ShortResult(NoneStr)
\* replaced tells whether the registry held a session under the key the
\* operation wrote
SimReturn(op, name) ==
    [ op |-> op, name |-> name, http |-> 200, session |-> NoSimulation,
      replaced |-> FALSE ]
SimIdle == sims = <<>> /\ simRet = SimReturn("none", "")
\* no converse call was made
NoChat == ChatReturn([t |-> "unset", v |-> <<>>], JNull, FALSE)
ChatIdle == chatReply = Raises /\ chatRet = NoChat

----------------------------------------------------------------------------
(* extract on arbitrary reply texts *)

ExInit ==
    /\ text \in TextInputs
    /\ manifest = JNull
    /\ exPc = "ready"

\* one call of _parse_generation_response(text)
Extract ==
    /\ exPc = "ready"
    /\ manifest' = _parse_generation_response(text)
    /\ exPc' = "done"
    /\ UNCHANGED << text, buildVars, hwVars, upVars, simVars, chatVars >>

InitExtract == ExInit /\ BuildIdle /\ HwIdle /\ UpIdle /\ SimIdle
             /\ ChatIdle
NextExtract == Extract
SpecExtract == InitExtract /\ [][NextExtract]_vars

----------------------------------------------------------------------------
(* The build pipeline *)

\* generate(context) with context.project_name = name, the collaborator's
\* outcome drawn from outcomes and the failing filesystem call from faults
GenerateWith(outcomes, faults, bound) ==
    /\ calls + 1 <= bound
    /\ \E name \in Names, outcome \in outcomes, faultAt \in faults :
       \E g \in { generate_code(disk, name, outcome, faultAt) } :
         /\ disk' = g.fs
         /\ result' = g.result
         /\ calls' = calls + g.calls
         /\ lastOp' = [ op |-> "generate", name |-> name, objects |-> <<>>,
                        outcome |-> outcome, det |-> Raises,
                        calls |-> g.calls, escaped |-> "",
                        asked |-> <<>>, board |-> "esp32" ]
         /\ UNCHANGED << exVars, hwVars, upVars, simVars, chatVars >>

Generate == GenerateWith(ProjectOutcomes, FaultPoints, MaxCalls)

\* the objects generate_vision_project asks a detection model for, lines
\* 372-390: none for an empty list, else the first one
DetectionRequests(objects) ==
    IF objects = <<>> THEN <<>> ELSE << objects[1] >>

\* an input the code does not consult is not drawn
Drawn(consulted, S, unused) == IF consulted THEN S ELSE { unused }

\* generate_vision_project reaches its second collaborator call (line 401):
\* the replies of calls that are not made are not drawn
AsksProject(objects, det) ==
    /\ objects # <<>>
    /\ Truthy(create_detection_model(det))
    /\ ~PromptRaises(create_detection_model(det))

\* generateVisionProject(name, objects)
GenerateVision ==
    /\ calls + 2 <= MaxCalls
    /\ \E name \in Names, objects \in ObjectLists :
       \E det \in Drawn(objects # <<>>, DetectionOutcomes, Raises) :
       \E outcome \in Drawn(AsksProject(objects, det), VisionOutcomes, Raises),
          faultAt \in Drawn(AsksProject(objects, det), FaultPoints, 0) :
       \E g \in { generate_vision_project(disk, name, objects, det, outcome,
                                           faultAt) } :
         /\ disk' = g.fs
         /\ result' = g.result
         /\ calls' = calls + g.calls
         /\ lastOp' = [ op |-> "vision", name |-> name, objects |-> objects,
                        outcome |-> outcome, det |-> det,
                        calls |-> g.calls, escaped |-> g.escaped,
                        asked |-> DetectionRequests(objects),
                        board |-> "esp32-cam" ]
         /\ UNCHANGED << exVars, hwVars, upVars, simVars, chatVars >>

InitBuild == ExIdle /\ BuildIdle /\ HwIdle /\ UpIdle /\ SimIdle
             /\ ChatIdle
NextBuild == Generate \/ GenerateVision
SpecBuild == InitBuild /\ [][NextBuild]_vars

----------------------------------------------------------------------------
(* The hardware bridge.  connect, disconnect and upload run without         *)
(* suspending; read_serial, run_test and monitor_serial suspend at the      *)
(* asyncio.sleep of every poll, where the calls of other callers run.  One  *)
(* step of a suspending operation runs it from one suspension to the next.  *)

\* what a step of an operation leaves: the bridge, the suspended call and
\* what the caller got
Step(h, suspended, ret) == [hw |-> h, proc |-> suspended, ret |-> ret]
Pending == HwReturn("pending")
Suspended(kind, lines, polls) == [kind |-> kind, lines |-> lines, polls |-> polls]

\* connect(port) called by a caller of its own
connect_call(h, port, comports, how) ==
    LET c == connect(h, port, comports, how) IN
    Step(c.hw, NoProc,
         [HwReturn("connect") EXCEPT !.ok = c.ok, !.escaped = c.escaped])

\* disconnect() called by a caller of its own
disconnect_call(h) ==
    Step(disconnect(h), NoProc,
         [HwReturn("disconnect") EXCEPT !.disconnects = 1, !.closed = h.slot])

\* read_serial returns lines
ReadReturns(h, lines) ==
    Step(h, NoProc, [HwReturn("read") EXCEPT !.lines = lines])

\* read_serial(duration) up to its first suspension
read_serial_call(h, comports, how, timeUp, ev) ==
    LET c == IF h.slot = 0 THEN connect(h, NoDevice, comports, how)
             ELSE ConnectRet(h, TRUE, "")
        it == ReadIter(c.hw, <<>>, timeUp, ev)
    IN  IF c.escaped # ""
        THEN Step(c.hw, NoProc,
                  [HwReturn("read") EXCEPT !.escaped = c.escaped])
        ELSE IF ~c.ok THEN ReadReturns(c.hw, <<>>)
        ELSE IF it.done THEN ReadReturns(c.hw, it.lines)
        ELSE Step(c.hw, Suspended("read", it.lines, 1), Pending)

\* read_serial from one asyncio.sleep to the next
read_serial_poll(h, suspended, timeUp, ev) ==
    LET it == ReadIter(h, suspended.lines, timeUp, ev) IN
    IF it.done THEN ReadReturns(h, it.lines)
    ELSE Step(h, Suspended("read", it.lines, suspended.polls + 1), Pending)

\* run_test after read_serial returned output, or raised error, on bridge h:
\* lines 204-221
TestReturns(h, output, error) ==
    Step(disconnect(h), NoProc,
         [HwReturn("test") EXCEPT
            !.ok = (error = NoneStr),
            !.lines = output,
            !.test_passed = ScanLines(output, 1, FALSE),
            !.error = error,
            !.disconnects = 1,
            !.closed = h.slot])

\* run_test(test_code, timeout) up to its first suspension; timeoutOk is
\* false for a timeout that is no number, which makes read_serial raise
run_test_call(h, comports, how, timeoutOk, timeUp, ev) ==
    LET c == connect(h, NoDevice, comports, how)
        it == ReadIter(c.hw, <<>>, timeUp, ev)
    IN  IF c.escaped # ""
        THEN Step(c.hw, NoProc,
                  [HwReturn("test") EXCEPT !.escaped = c.escaped])
        ELSE IF ~c.ok
        THEN Step(c.hw, NoProc,
                  [HwReturn("test") EXCEPT
                     !.error = "Could not connect to ESP32"])
        ELSE IF ~timeoutOk THEN TestReturns(c.hw, <<>>, "TypeError")
        ELSE IF it.done THEN TestReturns(c.hw, it.lines, NoneStr)
        ELSE Step(c.hw, Suspended("test", it.lines, 1), Pending)

\* run_test from one asyncio.sleep of its read_serial to the next
run_test_poll(h, suspended, timeUp, ev) ==
    LET it == ReadIter(h, suspended.lines, timeUp, ev) IN
    IF it.done THEN TestReturns(h, it.lines, NoneStr)
    ELSE Step(h, Suspended("test", it.lines, suspended.polls + 1), Pending)

\* what the per-line handler of monitor_serial does: there is none, it
\* returns or raises without suspending, or it suspends (await callback(line),
\* line 234, gives the event loop to other callers) and returns or raises
\* when it is resumed
Handlers == { "none", "returns", "raises", "suspends" }
\* how a suspended handler ends
HandlerEnds == { "returns", "raises" }

\* one pass of the while loop of monitor_serial, lines 230-235: "" when the
\* loop goes on, else how it ends
MonitorIter(h, timeUp, ev, handler) ==
    IF timeUp THEN "elapsed"
    ELSE IF h.slot = 0 THEN ""
    ELSE IF h.slot \notin h.open \/ ev.k = "error" THEN "ioerror"
    ELSE IF ev.k = "line" /\ ev.line # <<>> /\ handler = "raises" THEN "raised"
    ELSE IF ev.k = "line" /\ ev.line # <<>> /\ handler = "suspends"
    THEN "incallback"
    ELSE ""

\* the finally clause of monitor_serial on bridge h, then the return or the
\* exception
MonitorExits(h, how) ==
    Step(disconnect(h), NoProc,
         [HwReturn("monitor") EXCEPT
            !.how = how,
            !.escaped = CASE how = "raised" -> "HandlerError"
                          [] how = "ioerror" -> "SerialException"
                          [] OTHER -> "",
            !.disconnects = 1,
            !.closed = h.slot])

\* monitor_serial(callback, duration) up to its first suspension
monitor_serial_call(h, comports, how, timeUp, ev, handler) ==
    LET c == connect(h, NoDevice, comports, how)
        it == MonitorIter(c.hw, timeUp, ev, handler)
    IN  IF c.escaped # "" \/ ~c.ok
        THEN Step(c.hw, NoProc,
                  [HwReturn("monitor") EXCEPT
                     !.how = "noconnect", !.escaped = c.escaped])
        ELSE IF it = "incallback"
        THEN Step(c.hw, Suspended("callback", <<>>, 0), Pending)
        ELSE IF it # "" THEN MonitorExits(c.hw, it)
        ELSE Step(c.hw, Suspended("monitor", <<>>, 1), Pending)

\* monitor_serial from one asyncio.sleep to the next
monitor_serial_poll(h, suspended, timeUp, ev, handler) ==
    LET it == MonitorIter(h, timeUp, ev, handler) IN
    IF it = "incallback"
    THEN Step(h, Suspended("callback", <<>>, suspended.polls), Pending)
    ELSE IF it # "" THEN MonitorExits(h, it)
    ELSE Step(h, Suspended("monitor", <<>>, suspended.polls + 1), Pending)

\* monitor_serial from the resumption of its suspended handler to the
\* asyncio.sleep of line 235, or through the finally clause when the handler
\* raises; h is the bridge as the other callers left it
monitor_serial_resume(h, suspended, ends) ==
    IF ends = "raises" THEN MonitorExits(h, "raised")
    ELSE Step(h, Suspended("monitor", <<>>, suspended.polls + 1), Pending)

MayConnect == Len(hw.conns) < MaxConns
\* the duration has elapsed at the latest after MaxPolls polls
TimeUps == IF proc.polls >= MaxPolls THEN { TRUE } ELSE BOOLEAN

\* the bridge, the suspended call and the return value after a step
Does(step) ==
    /\ hw' = step.hw
    /\ proc' = step.proc
    /\ hwRet' = step.ret
    /\ interrupted' =
          IF proc.kind = "none" THEN NotInterrupted
          ELSE IF /\ proc.kind = "read" /\ step.proc = proc
                  /\ hw.slot # 0 /\ step.hw.slot = 0
          THEN [cut |-> TRUE, lines |-> proc.lines]
          ELSE interrupted
    /\ UNCHANGED << exVars, buildVars, upVars, simVars, chatVars >>

\* connect(port) reaches serial.Serial: port names a device or detection
\* finds one
Opens(port, comports) ==
    port # NoDevice \/ detect_esp32(comports).device # NoDevice

\* the enumerations connect(port) may see, and then how opening turns out
PortsSeen(port) == Drawn(port = NoDevice, BridgePortLists, <<>>)
OpensSeen(port, comports) == Drawn(Opens(port, comports), OpenOutcomes, "ok")
\* what one pass of a read loop may see after the clock is read
EventsSeen(timeUp) == Drawn(~timeUp, PollEvents, NoData)
HandlersSeen(timeUp) == Drawn(~timeUp, Handlers, "none")

\* another caller calls connect(port)
HwConnect ==
    /\ MayConnect
    /\ \E port \in { NoDevice, DevUSB1 } :
       \E comports \in PortsSeen(port) :
       \E how \in OpensSeen(port, comports) :
         Does([connect_call(hw, port, comports, how) EXCEPT !.proc = proc])

\* another caller calls disconnect()
HwDisconnect == Does([disconnect_call(hw) EXCEPT !.proc = proc])

ReadSerialCall ==
    /\ proc.kind = "none"
    /\ hw.slot = 0 => MayConnect
    /\ \E comports \in Drawn(hw.slot = 0, BridgePortLists, <<>>) :
       \E how \in Drawn(hw.slot = 0 /\ Opens(NoDevice, comports),
                        OpenOutcomes, "ok") :
       \E timeUp \in Drawn(hw.slot # 0 \/ (Opens(NoDevice, comports)
                                            /\ how = "ok"),
                           BOOLEAN, TRUE) :
       \E ev \in EventsSeen(timeUp) :
         Does(read_serial_call(hw, comports, how, timeUp, ev))

ReadSerialPoll ==
    /\ proc.kind = "read"
    /\ \E timeUp \in TimeUps :
       \E ev \in EventsSeen(timeUp) :
         Does(read_serial_poll(hw, proc, timeUp, ev))

RunTestCall ==
    /\ proc.kind = "none"
    /\ MayConnect
    /\ \E comports \in BridgePortLists :
       \E how \in OpensSeen(NoDevice, comports) :
       \E timeoutOk \in Drawn(Opens(NoDevice, comports) /\ how = "ok",
                              BOOLEAN, TRUE) :
       \E timeUp \in Drawn(Opens(NoDevice, comports) /\ how = "ok"
                             /\ timeoutOk, BOOLEAN, TRUE) :
       \E ev \in EventsSeen(timeUp) :
         Does(run_test_call(hw, comports, how, timeoutOk, timeUp, ev))

RunTestPoll ==
    /\ proc.kind = "test"
    /\ \E timeUp \in TimeUps :
       \E ev \in EventsSeen(timeUp) :
         Does(run_test_poll(hw, proc, timeUp, ev))

MonitorCall ==
    /\ proc.kind = "none"
    /\ MayConnect
    /\ \E comports \in BridgePortLists :
       \E how \in OpensSeen(NoDevice, comports) :
       \E timeUp \in Drawn(Opens(NoDevice, comports) /\ how = "ok",
                           BOOLEAN, TRUE) :
       \E ev \in EventsSeen(timeUp),
          handler \in HandlersSeen(timeUp) :
         Does(monitor_serial_call(hw, comports, how, timeUp, ev, handler))

MonitorPoll ==
    /\ proc.kind = "monitor"
    /\ \E timeUp \in TimeUps :
       \E ev \in EventsSeen(timeUp),
          handler \in HandlersSeen(timeUp) :
         Does(monitor_serial_poll(hw, proc, timeUp, ev, handler))

\* the handler monitor_serial awaits is resumed and ends
MonitorResume ==
    /\ proc.kind = "callback"
    /\ \E ends \in HandlerEnds :
         Does(monitor_serial_resume(hw, proc, ends))

\* the runtime finalises a serial object nothing refers to any more, which
\* closes it; when this happens is up to the runtime
Finalize ==
    \E c \in hw.open \ {hw.slot} :
      /\ hw' = [hw EXCEPT !.open = @ \ {c}]
      /\ UNCHANGED << proc, hwRet, interrupted, exVars, buildVars, upVars,
                      simVars, chatVars >>

InitHw == ExIdle /\ BuildIdle /\ HwIdle /\ UpIdle /\ SimIdle
             /\ ChatIdle
NextHw ==
    \/ HwConnect \/ HwDisconnect \/ Finalize
    \/ ReadSerialCall \/ ReadSerialPoll
    \/ RunTestCall \/ RunTestPoll
    \/ MonitorCall \/ MonitorPoll \/ MonitorResume
SpecHw == InitHw /\ [][NextHw]_vars

----------------------------------------------------------------------------
(* upload *)

\* upload(firmware_path, port): the outcome of the secondary tool exists only
\* when that tool is launched
Upload ==
    \E firmware_path \in FirmwarePaths, port \in { NoDevice, DevUSB1 },
       primary \in RunOutcomes :
      \E comports \in (IF port = NoDevice THEN PortLists ELSE { <<>> }),
         secondary \in (IF primary.k = "notfound" THEN RunOutcomes
                        ELSE { NotFound }) :
        LET u == upload_firmware(firmware_path, port, comports, primary,
                                 secondary)
        IN  /\ upRet' = u.ret
            /\ upCall' = [ firmware_path |-> firmware_path, port |-> port,
                           comports |-> comports, primary |-> primary,
                           secondary |-> secondary, tools |-> u.tools,
                           escaped |-> u.escaped, done |-> TRUE ]
            /\ UNCHANGED << exVars, buildVars, hwVars, simVars, chatVars >>

InitUpload == ExIdle /\ BuildIdle /\ HwIdle /\ UpIdle /\ SimIdle
             /\ ChatIdle
NextUpload == Upload
SpecUpload == InitUpload /\ [][NextUpload]_vars

----------------------------------------------------------------------------
(* The simulator behind its routes *)

\* a build that puts a project to simulate on disk
SimGenerate == GenerateWith(SimOutcomes, { 0 }, MaxSimBuilds)

\* POST /simulate with request.project_name = name
Simulate ==
    \E name \in Names, board_type \in BoardTypes, now \in Clock :
      LET project_path == ProjectPath(name)
          r == simulate_project(disk, sims, project_path, board_type, now)
      IN
        /\ IF ~Exists(disk, project_path)
           THEN /\ sims' = sims
                /\ simRet' = [SimReturn("simulate", Join(name)) EXCEPT
                                !.http = 404]
           ELSE /\ sims' = r.reg
                /\ simRet' = IF r.escaped # ""
                             THEN [SimReturn("simulate", Join(name)) EXCEPT
                                     !.http = 500,
                                     !.replaced =
                                        PathName(project_path) \in DOMAIN sims]
                             ELSE [SimReturn("simulate", Join(name)) EXCEPT
                                     !.session = r.session,
                                     !.replaced =
                                        PathName(project_path) \in DOMAIN sims]
        /\ UNCHANGED << exVars, buildVars, hwVars, upVars, chatVars >>

\* GET /simulate/{project_name}
GetSimulation ==
    \E project_name \in SimKeys :
      LET found == get_simulation(sims, project_name) IN
        /\ simRet' = IF found = NoSimulation
                     THEN [SimReturn("get", project_name) EXCEPT !.http = 404]
                     ELSE [SimReturn("get", project_name) EXCEPT
                             !.session = found]
        /\ UNCHANGED << sims, exVars, buildVars, hwVars, upVars, chatVars >>

\* DELETE /simulate/{project_name}
StopSimulation ==
    \E project_name \in SimKeys :
      LET r == stop_simulation(sims, project_name) IN
        /\ sims' = r.reg
        /\ simRet' = IF r.stopped THEN SimReturn("stop", project_name)
                     ELSE [SimReturn("stop", project_name) EXCEPT !.http = 404]
        /\ UNCHANGED << exVars, buildVars, hwVars, upVars, chatVars >>

InitSim == ExIdle /\ BuildIdle /\ HwIdle /\ UpIdle /\ SimIdle
             /\ ChatIdle
NextSim == SimGenerate \/ Simulate \/ GetSimulation \/ StopSimulation
SpecSim == InitSim /\ [][NextSim]_vars

----------------------------------------------------------------------------
(* converse *)

\* one call of chat_conversation with the collaborator outcome chatReply
Converse ==
    /\ chatRet = NoChat
    /\ chatRet' = chat_conversation(chatReply)
    /\ UNCHANGED << chatReply, exVars, buildVars, hwVars, upVars, simVars >>

InitChat ==
    /\ chatReply \in ChatOutcomes
    /\ chatRet = NoChat
    /\ ExIdle /\ BuildIdle /\ HwIdle /\ UpIdle /\ SimIdle
NextChat == Converse
SpecChat == InitChat /\ [][NextChat]_vars

----------------------------------------------------------------------------
(* POST /build *)

\* build_project(request), lines 92-111: the context is built from the
\* request as it is and handed to generate_code
BuildProject ==
    /\ calls + 1 <= MaxCalls
    /\ \E name \in RequestNames, board_type \in RequestBoards,
          outcome \in ProjectOutcomes :
       \E g \in { generate_code(disk, name, outcome, 0) } :
         /\ disk' = g.fs
         /\ result' = g.result
         /\ calls' = calls + g.calls
         /\ lastOp' = [ op |-> "build", name |-> name, objects |-> <<>>,
                        outcome |-> outcome, det |-> Raises,
                        calls |-> g.calls, escaped |-> "",
                        asked |-> <<>>, board |-> board_type ]
         /\ UNCHANGED << exVars, hwVars, upVars, simVars, chatVars >>

InitRequest == ExIdle /\ BuildIdle /\ HwIdle /\ UpIdle /\ SimIdle
             /\ ChatIdle
NextRequest == BuildProject
SpecRequest == InitRequest /\ [][NextRequest]_vars

----------------------------------------------------------------------------
(* Properties of extract *)

\* a mapping with files (a mapping), platformio_ini (a string) and config
\* (a mapping)
WellShaped(m) ==
    /\ m.t = "obj"
    /\ HasKey(m, << "files" >>) /\ Get(m, << "files" >>, JNull).t = "obj"
    /\ HasKey(m, << "platformio_ini" >>)
    /\ Get(m, << "platformio_ini" >>, JNull).t = "str"
    /\ HasKey(m, << "config" >>) /\ Get(m, << "config" >>, JNull).t = "obj"

\* neither the candidate nor its brace span is JSON
NothingParses(t) ==
    ~JsonLoads(Candidate(t)).ok /\ ~BraceSpan(Candidate(t)).ok

\* C1: for every text, extract returns a mapping that has the keys files (a
\* mapping), platformio_ini (a string) and config (a mapping); when nothing
\* in the text parses the result is exactly the empty manifest.
C1_ExtractWellShaped ==
    exPc = "done" =>
        /\ WellShaped(manifest)
        /\ NothingParses(text) => manifest = EmptyManifest

----------------------------------------------------------------------------
(* Properties of the build pipeline *)

IsPrefix(d, p) == Len(d) <= Len(p) /\ Slice(p, 1, Len(d)) = d

\* the paths a successful materialization of r writes, with the content each
\* one holds afterwards: the last entry of code_files for that path, and the
\* platformio_ini text at platformio.ini when that text is not empty
ExpectedPaths(r) ==
    { r.project_path \o Components(r.code_files.v[i].k) :
          i \in 1..Len(r.code_files.v) }
      \cup (IF Truthy(r.platformio_ini)
            THEN { r.project_path \o PlatformioIni } ELSE {})
ExpectedContent(r, p) ==
    IF Truthy(r.platformio_ini) /\ p = r.project_path \o PlatformioIni
    THEN r.platformio_ini.v
    ELSE LET idx == { i \in 1..Len(r.code_files.v) :
                        r.project_path \o Components(r.code_files.v[i].k) = p }
             last == CHOOSE i \in idx : \A j \in idx : j <= i
         IN  r.code_files.v[last].x.v

\* a step that is the second of two successful generate runs for one name
SecondRunSameName ==
    /\ lastOp.op = "generate" /\ result.success
    /\ lastOp'.op = "generate" /\ result'.success
    /\ lastOp'.name = lastOp.name
    /\ calls' = calls + 1

\* C2 (as claimed): after materializing one project name twice, no file
\* written by the first materialization remains unless the second manifest
\* has that path and then with the second content; both runs use the same
\* directory.
C2_OnlySecondRemains ==
    [][SecondRunSameName =>
         /\ result'.project_path = result.project_path
         /\ \A p \in ExpectedPaths(result) :
              p \in DOMAIN disk'.files =>
                 /\ p \in ExpectedPaths(result')
                 /\ disk'.files[p] = ExpectedContent(result', p)]_vars

\* C2 (amended): after materializing one project name twice, every path of
\* the second manifest holds the second content, every file written by the
\* first materialization whose path the second manifest lacks is still on
\* disk with the first content, and both runs use the same directory.
C2_SecondOverwritesInPlace ==
    [][SecondRunSameName =>
         /\ result'.project_path = result.project_path
         /\ \A p \in ExpectedPaths(result') :
              /\ p \in DOMAIN disk'.files
              /\ disk'.files[p] = ExpectedContent(result', p)
         /\ \A p \in ExpectedPaths(result) \ ExpectedPaths(result') :
              /\ p \in DOMAIN disk'.files
              /\ disk'.files[p] = ExpectedContent(result, p)]_vars

\* a successful generate has run in a directory that still holds a file the
\* returned manifest does not name
C2_Witness ==
    /\ lastOp.op = "generate" /\ result.success /\ calls >= 2
    /\ \E p \in DOMAIN disk.files :
          /\ IsPrefix(result.project_path, p)
          /\ p \notin ExpectedPaths(result)
    /\ \E p \in ExpectedPaths(result) : disk.files[p] = CodeY

\* C3: when the collaborator call or a parsing or filesystem step of generate
\* raises, generate still returns a BuildResult: success is false, error is
\* the exception message, build_log holds exactly one line, the error line,
\* and the collaborator was called exactly once.
C3_GenerateCatches ==
    lastOp.op = "generate" =>
        /\ lastOp.escaped = ""
        /\ lastOp.calls = 1
        /\ lastOp.outcome.raised =>
              ~result.success /\ result.error = "APIError"
        /\ _parse_generation_response(lastOp.outcome.text).t # "obj"
              /\ ~lastOp.outcome.raised =>
              ~result.success /\ result.error = "AttributeError"
        /\ ~result.success =>
              /\ result.error # NoneStr
              /\ result.build_log = << << "Error: ", result.error >> >>
        /\ result.success => result.error = NoneStr

\* a filesystem step of generate raised
C3_Witness ==
    /\ lastOp.op = "generate"
    /\ ~result.success
    /\ result.error \in IOErrors
    /\ result.build_log = << << "Error: ", result.error >> >>

\* files maps relative paths to strings and platformio_ini is a string
WellFormed(m) ==
    /\ m.t = "obj"
    /\ Get(m, << "files" >>, JObj(<<>>)).t = "obj"
    /\ \A i \in 1..Len(Get(m, << "files" >>, JObj(<<>>)).v) :
          Get(m, << "files" >>, JObj(<<>>)).v[i].x.t = "str"
    /\ Get(m, << "platformio_ini" >>, JStr(<<>>)).t = "str"

\* generate got a well-formed manifest and no filesystem step failed
CleanGenerate ==
    /\ lastOp.op = "generate"
    /\ ~lastOp.outcome.raised
    /\ WellFormed(_parse_generation_response(lastOp.outcome.text))
    /\ result.error \notin IOErrors

\* the part of C4 that does not depend on the file contents
GenerateSucceeded ==
    /\ result.success
    /\ result.error = NoneStr
    /\ result.has_path
    /\ lastOp.name = << "Lamp" >> => result.project_path = << "lamp" >>
    /\ lastOp.name = << "My", " ", "Lamp" >> =>
          result.project_path = << "my_lamp" >>
    /\ \E i \in 1..Len(result.build_log) :
          Contains(result.build_log[i], PathWords(result.project_path))
    /\ result.code_files =
          Get(_parse_generation_response(lastOp.outcome.text), << "files" >>,
              JObj(<<>>))

\* C4 (as claimed): a well-formed manifest and no failing I/O step give
\* success, no error, the slug directory, a log line with the path, and
\* every manifest file on disk with exactly the manifest's content.
C4_EveryManifestFileExact ==
    CleanGenerate =>
        /\ GenerateSucceeded
        /\ \A i \in 1..Len(result.code_files.v) :
              LET p == result.project_path
                         \o Components(result.code_files.v[i].k)
              IN  /\ p \in DOMAIN disk.files
                  /\ disk.files[p] = result.code_files.v[i].x.v

\* C4 (amended): as claimed, except that the file platformio.ini of the
\* project directory holds the platformio_ini text whenever that text is not
\* empty, also when the manifest's files name platformio.ini themselves.
C4_ManifestFilesWritten ==
    CleanGenerate =>
        /\ GenerateSucceeded
        /\ \A i \in 1..Len(result.code_files.v) :
              LET p == result.project_path
                         \o Components(result.code_files.v[i].k)
              IN  /\ p \in DOMAIN disk.files
                  /\ disk.files[p] =
                       IF Truthy(result.platformio_ini)
                          /\ p = result.project_path \o PlatformioIni
                       THEN result.platformio_ini.v
                       ELSE result.code_files.v[i].x.v
        /\ Truthy(result.platformio_ini) =>
              /\ result.project_path \o PlatformioIni \in DOMAIN disk.files
              /\ disk.files[result.project_path \o PlatformioIni]
                   = result.platformio_ini.v

\* generate wrote a manifest of two files, one in a subdirectory, for a name
\* with a space and capitals
C4_Witness ==
    /\ CleanGenerate
    /\ result.success
    /\ lastOp.name = << "My", " ", "Lamp" >>
    /\ Len(result.code_files.v) = 2
    /\ << "my_lamp", "src", "main.cpp" >> \in DOMAIN disk.files

\* C5: generateVisionProject(name, []) returns success=false with the error
\* "No objects specified for detection", makes no collaborator call and
\* leaves the disk unchanged.
C5_VisionNoObjects ==
    [][(lastOp'.op = "vision" /\ lastOp'.objects = <<>>) =>
          /\ ~result'.success
          /\ result'.error = "No objects specified for detection"
          /\ lastOp'.escaped = ""
          /\ calls' = calls
          /\ disk' = disk]_vars

\* generateVisionProject has returned for an empty objects list
C5_Witness ==
    /\ lastOp.op = "vision"
    /\ lastOp.objects = <<>>
    /\ result.error = "No objects specified for detection"
    /\ calls = 0


----------------------------------------------------------------------------
(* Properties of the hardware bridge *)

\* C6: on one bridge, whatever the order of connect, readSerial, monitor,
\* runTest and disconnect, at most one serial connection is open at any time,
\* and no open connection is left that the bridge does not refer to.
C6_SingleConnection ==
    /\ Cardinality(hw.open) <= 1
    /\ hw.open \subseteq { hw.slot }

\* the grandparent directories of the firmware paths tried
ExpectedCwd(fp) ==
    CASE fp = FsPath(FALSE, << "proj", ".pio", "firmware.bin" >>) -> "proj"
      [] fp = FsPath(FALSE, << "firmware.bin" >>) -> "."
      [] fp = FsPath(TRUE, << "srv", "proj", "build", "fw.bin" >>) -> "/srv/proj"
      [] fp = FsPath(TRUE, << "fw.bin" >>) -> "/"
SecondaryRuns ==
    { i \in DOMAIN upCall.tools : upCall.tools[i].cmd[1] = "platformio" }
PrimaryLaunched == upCall.done /\ upCall.escaped = "" /\ upCall.tools # <<>>

\* C7: upload runs the secondary tool if and only if launching the primary
\* tool fails with tool-not-found; then it runs it exactly once, as
\* platformio run --target upload --upload-port <port>, in the grandparent
\* directory of the firmware path, and success tells whether the secondary
\* tool exited with 0.  When the primary tool times out the error is
\* "Upload timeout", when it exits nonzero the error is its stderr, and in
\* both cases upload fails and the secondary tool is not run.
C7_UploadFallback ==
    upCall.done /\ upCall.escaped = "" =>
      LET tools == upCall.tools
          p == upCall.primary
          sec == upCall.secondary
      IN  /\ SecondaryRuns # {} <=> (PrimaryLaunched /\ p.k = "notfound")
          /\ PrimaryLaunched /\ p.k = "notfound" =>
               /\ SecondaryRuns = { 2 }
               /\ Len(tools) = 2
               /\ tools[2].cmd = << "platformio", "run", "--target", "upload",
                                    "--upload-port", tools[1].cmd[5] >>
               /\ tools[2].cwd = ExpectedCwd(upCall.firmware_path)
               /\ upRet.success = (sec.k = "exit" /\ sec.code = 0)
          /\ PrimaryLaunched /\ p.k = "timeout" =>
               /\ ~upRet.success
               /\ upRet.error = "Upload timeout"
               /\ Len(tools) = 1
          /\ PrimaryLaunched /\ p.k = "exit" /\ p.code # 0 =>
               /\ ~upRet.success
               /\ upRet.error = p.stderr
               /\ Len(tools) = 1

\* the primary tool is missing, the device was detected, and the secondary
\* tool uploaded
C7_Witness ==
    /\ PrimaryLaunched
    /\ upCall.port = NoDevice
    /\ upCall.primary.k = "notfound"
    /\ Len(upCall.tools) = 2
    /\ upCall.tools[2].cwd = "/srv/proj"
    /\ upRet.success

\* C8: whenever runTest has returned, it has called disconnect exactly once
\* and the bridge holds no connection, whether connect failed, the read
\* completed or the read raised.
C8_RunTestDisconnectsOnce ==
    hwRet.op = "test" /\ hwRet.escaped = "" =>
      /\ hwRet.disconnects = 1
      /\ hw.slot = 0

\* C9: when monitor exits after the duration elapsed or after the per-line
\* handler raised, it has called disconnect, the connection the bridge held
\* is closed and the bridge holds none; this is the state in which the
\* handler's exception reaches the caller.
C9_MonitorLeavesDisconnected ==
    hwRet.op = "monitor" /\ hwRet.how \in { "elapsed", "raised", "ioerror" } =>
      /\ hwRet.disconnects = 1
      /\ hw.slot = 0
      /\ hwRet.closed \notin hw.open
      /\ hwRet.how = "raised" <=> hwRet.escaped = "HandlerError"

\* the handler raised while monitor held an open connection
C9_Witness ==
    /\ hwRet.op = "monitor"
    /\ hwRet.how = "raised"
    /\ hwRet.escaped = "HandlerError"
    /\ hwRet.closed # 0
    /\ hw.slot = 0

----------------------------------------------------------------------------
(* Properties of the simulator *)

MainOf(name) == ProjectPath(name) \o << "src", "main.cpp" >>
\* the step is a simulate request for name that returned a session
SimulateStep(name) ==
    /\ simRet'.op = "simulate"
    /\ simRet'.name = Join(name)
    /\ simRet'.http = 200
    /\ UNCHANGED << disk, calls >>

\* C10: simulate on a project whose src/main.cpp contains softAP returns a
\* session with status running, ap_ssid equal to the project name followed by
\* _AP (not null) and ip_address 192.168.4.1, never 192.168.1.100, whether or
\* not WiFi or WIFI occurs in the file too.  The project name is the name of
\* the project directory, which the session carries as project_name.
C10_AccessPoint ==
    [][ \A name \in Names :
          ( /\ SimulateStep(name)
            /\ IsFile(disk, MainOf(name))
            /\ Contains(disk.files[MainOf(name)], << "softAP" >>) )
          => LET s == simRet'.session IN
               /\ s.status = "running"
               /\ s.project_name = Join(Slug(name))
               /\ s.ap_ssid = s.project_name \o "_AP"
               /\ s.ap_ssid # NoneStr
               /\ s.ip_address = "192.168.4.1"
               /\ s.ip_address # "192.168.1.100"
               /\ sims'[s.project_name] = s ]_vars

\* a session for a source with both WiFi and softAP
C10_Witness ==
    /\ simRet.op = "simulate"
    /\ simRet.name = "My Lamp"
    /\ IsFile(disk, MainOf(<< "My", " ", "Lamp" >>))
    /\ disk.files[MainOf(<< "My", " ", "Lamp" >>)] = CodeWeb
    /\ simRet.session.has_wifi
    /\ simRet.session.ap_ssid = "my_lamp_AP"
    /\ simRet.session.ip_address = "192.168.4.1"

\* the step is a simulate request for name, answered or not
SimulateAsked(name) ==
    /\ simRet'.op = "simulate"
    /\ simRet'.name = Join(name)
    /\ UNCHANGED << disk, calls >>

\* C11: simulate on a project without src/main.cpp does not raise: the
\* session it returns, which the registry holds, has status error, the log
\* line "Error: main.cpp not found", no ip_address, no ap_ssid and no web
\* server; when src/main.cpp is a file, the session returned has status
\* running whatever the file contains; no session simulate returns has
\* status starting.
C11_MissingSourceIsError ==
    [][ \A name \in Names :
          /\ ( /\ SimulateAsked(name)
               /\ Exists(disk, ProjectPath(name))
               /\ ~Exists(disk, MainOf(name)) )
             => /\ simRet'.http = 200
                /\ simRet'.session.status = "error"
                /\ simRet'.session.logs = << "Error: main.cpp not found" >>
                /\ simRet'.session.ip_address = NoneStr
                /\ simRet'.session.ap_ssid = NoneStr
                /\ ~simRet'.session.web_server
                /\ sims'[Join(Slug(name))] = simRet'.session
          /\ (SimulateAsked(name) /\ IsFile(disk, MainOf(name)))
             => /\ simRet'.http = 200
                /\ simRet'.session.status = "running"
                /\ sims'[Join(Slug(name))] = simRet'.session
          /\ SimulateStep(name) => simRet'.session.status # "starting" ]_vars

\* simulate returned the error session of a project that has files but no
\* src/main.cpp
C11_Witness ==
    /\ simRet.op = "simulate"
    /\ simRet.http = 200
    /\ simRet.session.status = "error"
    /\ simRet.session.project_name = "lamp"
    /\ IsFile(disk, << "lamp", "a" >>)
    /\ ~Exists(disk, MainOf(<< "Lamp" >>))
    /\ sims["lamp"] = simRet.session

\* C12: the registry holds one session per project name, and simulate for a
\* name that has a session replaces it by the session simulate computes from
\* the source file and its arguments alone, the one an empty registry would
\* get: no flag and no log line of the earlier session is carried over, and
\* the sessions of other names are left as they are.
C12_SimulateReplaces ==
    [][ \A name \in Names :
          (SimulateStep(name) /\ Join(Slug(name)) \in DOMAIN sims)
          => /\ \E board_type \in BoardTypes, now \in Clock :
                  simRet'.session =
                    simulate_project(disk, << >>, ProjectPath(name),
                                     board_type, now).session
             /\ Len(simRet'.session.logs) <= 5
             /\ DOMAIN sims' = DOMAIN sims
             /\ sims'[Join(Slug(name))] = simRet'.session
             /\ \A k \in DOMAIN sims \ { Join(Slug(name)) } :
                   sims'[k] = sims[k] ]_vars

\* simulate has replaced a session of lamp by one computed from a source
\* without network code
C12_Witness ==
    /\ simRet.op = "simulate"
    /\ simRet.http = 200
    /\ simRet.replaced
    /\ simRet.session.project_name = "lamp"
    /\ simRet.session.status = "running"
    /\ disk.files[MainOf(<< "Lamp" >>)] = CodeX
    /\ simRet.session.logs =
          << "Simulation started successfully", "Board: esp32s3" >>
    /\ sims["lamp"] = simRet.session

----------------------------------------------------------------------------
(* Further properties of the response extractor *)

\* C13: when the first parse attempt fails, extract parses the span from the
\* first "{" to the last "}" of the original reply text and returns that
\* object, e.g. the object that follows an unparseable fenced block; only
\* when that fails too it returns the empty manifest.
C13_FallbackOnOriginalText ==
    (exPc = "done" /\ ~JsonLoads(Candidate(text)).ok) =>
        manifest = IF BraceSpan(text).ok THEN BraceSpan(text).val
                   ELSE EmptyManifest

\* the words of prose: no brace and no fence
ProseWords == { "Enjoy!", "\n" }
IsProse(t) == \A k \in 1..Len(t) : t[k] \in ProseWords
IsBlank(t) == \A k \in 1..Len(t) : t[k] \in WS
\* the well-formed objects the replies embed
EmbeddedObjects == { ObjFiles, ObjFull, ObjFilesNull }

\* t is prose, then obj, then prose
Unfenced(t, obj) ==
    \E i \in 1..Len(t) :
      /\ OccursAt(t, obj, i)
      /\ IsProse(Slice(t, 1, i - 1))
      /\ IsProse(Slice(t, i + Len(obj), Len(t)))

\* obj is what stands between the first json fence of t and the next fence
InFirstJsonFence(t, obj) ==
    \E i \in 1..Len(t) :
      /\ OccursAt(t, FenceJson, i)
      /\ \A h \in 1..(i - 1) : ~OccursAt(t, FenceJson, h)
      /\ \E j \in (i + Len(FenceJson))..Len(t) :
           /\ OccursAt(t, obj, j)
           /\ IsBlank(Slice(t, i + Len(FenceJson), j - 1))
           /\ \E k \in (j + Len(obj))..Len(t) :
                /\ OccursAt(t, Fence, k)
                /\ IsBlank(Slice(t, j + Len(obj), k - 1))

\* C14: for a reply that embeds one well-formed object, between prose or
\* inside its first json fence pair, extract returns a mapping whose files
\* entry is that of the embedded object; text before the json fence, a
\* generic fence included, and text after the closing fence do not matter.
C14_EmbeddedObjectFound ==
    exPc = "done" =>
      \A obj \in EmbeddedObjects :
        (Unfenced(text, obj) \/ InFirstJsonFence(text, obj)) =>
          /\ manifest.t = "obj"
          /\ manifest = JsonLoads(obj).val
          /\ Get(manifest, << "files" >>, JNull)
               = Get(JsonLoads(obj).val, << "files" >>, JNull)

\* extract has returned the object of a json fence that follows a generic
\* fence
C14_Witness ==
    /\ exPc = "done"
    /\ text = Fence \o FenceJson \o ObjFiles \o Fence
    /\ Get(manifest, << "files" >>, JNull)
         = JObj(<< [k |-> FileA, x |-> JStr(CodeX)] >>)

----------------------------------------------------------------------------
(* Properties of converse *)

\* what json.loads makes of the candidate of the stripped reply
ChatLoaded == JsonLoads(JsonContent(Strip(chatReply.text)))

\* C15: for every collaborator reply converse returns one of three
\* outcomes: the projectSpec of the object the reply parses to, with
\* needsInput false; the message of that object when it has no projectSpec,
\* with projectSpec null and needsInput true; the reply text with projectSpec
\* null and needsInput true, which is what it returns when the reply does not
\* parse.  Only a failure of the collaborator gives the error message, with
\* needsInput true.
C15_ThreeOutcomes ==
    chatRet # NoChat =>
      IF chatReply.raised
      THEN chatRet = ChatError("APIError")
      ELSE
        /\ \/ /\ ChatLoaded.ok /\ ChatLoaded.val.t = "obj"
              /\ HasKey(ChatLoaded.val, KeyProjectSpec)
              /\ chatRet.projectSpec = Get(ChatLoaded.val, KeyProjectSpec, JNull)
              /\ ~chatRet.needsInput
           \/ /\ ChatLoaded.ok /\ ChatLoaded.val.t = "obj"
              /\ ~HasKey(ChatLoaded.val, KeyProjectSpec)
              /\ HasKey(ChatLoaded.val, KeyMessage)
              /\ chatRet = ChatReturn(Get(ChatLoaded.val, KeyMessage, JNull),
                                      JNull, TRUE)
           \/ chatRet = ChatReturn(JStr(Strip(chatReply.text)), JNull, TRUE)
        /\ ~ChatLoaded.ok =>
              chatRet = ChatReturn(JStr(Strip(chatReply.text)), JNull, TRUE)

----------------------------------------------------------------------------
(* Further properties of the build pipeline *)

KeyModelConfig == << "model_config" >>
\* the step is a generateVisionProject call with a non-empty objects list
VisionStep ==
    lastOp'.op = "vision" /\ lastOp'.objects # <<>> /\ calls' # calls

\* C16: generateVisionProject with a non-empty objects list asks for one
\* detection-model manifest, for objects[0]; when that manifest is empty it
\* returns success=false with an error, makes no project-generation call and
\* leaves the disk as it is; when it succeeds, the result's config holds the
\* detection-model manifest unchanged under model_config, next to every
\* other entry of the config of the project reply.
C16_VisionDetectionFirst ==
    [][ VisionStep =>
          /\ lastOp'.asked = << lastOp'.objects[1] >>
          /\ create_detection_model(lastOp'.det) = JObj(<<>>) =>
                /\ ~result'.success
                /\ result'.error = "Failed to generate detection model"
                /\ calls' = calls + 1
                /\ disk' = disk
          /\ result'.success =>
                /\ calls' = calls + 2
                /\ create_detection_model(lastOp'.det) # JObj(<<>>)
                /\ Get(result'.config, KeyModelConfig, JNull)
                     = create_detection_model(lastOp'.det)
                /\ \A i \in 1..Len(Get(_parse_generation_response(
                                      lastOp'.outcome.text),
                                    << "config" >>, JObj(<<>>)).v) :
                     LET e == Get(_parse_generation_response(
                                    lastOp'.outcome.text),
                                  << "config" >>, JObj(<<>>)).v[i]
                     IN  e.k # KeyModelConfig =>
                           Get(result'.config, e.k, JNull) = e.x ]_vars

\* a vision project was built whose config holds the detection-model
\* manifest next to the entry of the project reply
C16_Witness ==
    /\ lastOp.op = "vision"
    /\ lastOp.objects = << "cat", "dog" >>
    /\ lastOp.asked = << "cat" >>
    /\ result.success
    /\ Get(result.config, KeyModelConfig, JNull) = DetGood
    /\ Get(result.config, << "board" >>, JNull) = JStr(CodeX)

\* C17: whatever the detection-model reply and the project reply are,
\* generateVisionProject does not raise: it returns a BuildResult, whose
\* success is false and whose error is set when no project was produced.
C17_VisionNeverRaises ==
    lastOp.op = "vision" =>
        /\ lastOp.escaped = ""
        /\ ~result.success => result.error # NoneStr
        /\ result.success => result.error = NoneStr

----------------------------------------------------------------------------
(* Further properties of the hardware bridge *)

\* C18: every dict upload returns, through either tool and on success or
\* failure, has the keys success, stdout, stderr, port and error, and its
\* error is null exactly when success is true.
C18_UploadUniformShape ==
    (upCall.done /\ upCall.escaped = "") =>
        /\ upRet.keys = { "success", "stdout", "stderr", "port", "error" }
        /\ (upRet.error = NoneStr) <=> upRet.success

\* a line with a token that marks the test passed, failed
PassLine(l) ==
    Contains(Upper(l), << "PASS" >>) \/ Contains(Upper(l), << "OK" >>)
FailLine(l) ==
    Contains(Upper(l), << "FAIL" >>) \/ Contains(Upper(l), << "ERROR" >>)

\* C19: runTest scans the collected lines in order; a line with pass or ok
\* marks the test passed, the first line with fail or error marks it failed
\* and ends the scan.  So test_passed is false whenever a collected line has
\* fail or error, also when that line has pass or ok too, and it is true
\* when some line has pass or ok and no line has fail or error.
C19_FailTokenFails ==
    (hwRet.op = "test" /\ hwRet.escaped = "" /\ hwRet.ok) =>
        /\ (\E i \in 1..Len(hwRet.lines) : FailLine(hwRet.lines[i]))
              => ~hwRet.test_passed
        /\ ( /\ \E i \in 1..Len(hwRet.lines) : PassLine(hwRet.lines[i])
             /\ \A i \in 1..Len(hwRet.lines) : ~FailLine(hwRet.lines[i]) )
              => hwRet.test_passed

\* the vendor ids of the allow-list, as numbers: 0x10c4, 0x1a86, 0x0403, 0x303a
AllowedVids == { 4292, 6790, 1027, 12346 }
\* the port matches the first test: its vendor id is allow-listed or its
\* description names a bridge chip
BridgePort(p) ==
    \/ p.has_vid /\ p.vid \in AllowedVids
    \/ \E n \in DescriptionNeedles : Contains(LowerPort(p.description), n)
\* the device detect is to return for an enumeration
ExpectedDevice(comports) ==
    LET first == FirstTrue([i \in 1..Len(comports) |-> BridgePort(comports[i])])
        second == FirstTrue([i \in 1..Len(comports) |->
                               UsbSerialDevice(comports[i])])
    IN  IF first # 0 THEN comports[first].device
        ELSE IF second # 0 THEN comports[second].device
        ELSE NoDevice

\* C20: detect returns the first enumerated port whose vendor id is one of
\* 0x10c4, 0x1a86, 0x0403, 0x303a or whose description names a bridge chip;
\* if no port matches, the first port whose device path contains usbserial;
\* else no device.  An upload without a port flashes exactly that device, or
\* reports that no ESP32 was detected.
C20_DetectFirstMatch ==
    (upCall.done /\ upCall.port = NoDevice) =>
        /\ upCall.escaped = ""
        /\ IF ExpectedDevice(upCall.comports) = NoDevice
           THEN upCall.tools = <<>> /\ upRet.error = "No ESP32 detected"
           ELSE /\ upCall.tools # <<>>
                /\ upCall.tools[1].cmd[5] = Join(ExpectedDevice(upCall.comports))

----------------------------------------------------------------------------
(* Further properties of the simulator *)

\* the step is a stop, a get request for the key
StopAsked(key) ==
    /\ simRet'.op = "stop"
    /\ simRet'.name = key
    /\ UNCHANGED << disk, calls >>
GetAsked(key) ==
    /\ simRet'.op = "get"
    /\ simRet'.name = key
    /\ UNCHANGED << disk, calls >>

\* C21: a session never expires on its own.  A name that has a session keeps
\* one through every step that is not a successful stop of that name, and get
\* returns the session the registry holds; stop of a name that has a session
\* succeeds and removes exactly that session, after which get finds none;
\* stop of a name without a session fails and leaves the registry unchanged.
C21_SessionsPersist ==
    [][ /\ \A k \in DOMAIN sims :
             k \notin DOMAIN sims' => StopAsked(k) /\ simRet'.http = 200
        /\ \A k \in SimKeys :
             /\ StopAsked(k) =>
                  IF k \in DOMAIN sims
                  THEN /\ simRet'.http = 200
                       /\ sims' = WithoutKey(sims, k)
                       /\ get_simulation(sims', k) = NoSimulation
                  ELSE simRet'.http = 404 /\ sims' = sims
             /\ GetAsked(k) =>
                  /\ sims' = sims
                  /\ IF k \in DOMAIN sims
                     THEN simRet'.http = 200 /\ simRet'.session = sims[k]
                     ELSE simRet'.http = 404 ]_vars

\* a session was stopped while the session of another name stays
C21_Witness ==
    /\ simRet.op = "stop"
    /\ simRet.http = 200
    /\ simRet.name = "lamp"
    /\ DOMAIN sims = { "my_lamp" }

----------------------------------------------------------------------------
(* Properties of the build route *)

\* C22: a build request whose project name or board string violates a
\* constraint of the validators is rejected before any I/O: the collaborator
\* is not called, nothing is created on disk and the build does not succeed.
C22_InvalidRejectedBeforeIO ==
    [][ ( /\ lastOp'.op = "build"
          /\ \/ validate_project_name(lastOp'.name).raised # ""
             \/ validate_esp32_board(lastOp'.board).raised # "" )
        => /\ calls' = calls
           /\ disk' = disk
           /\ ~result'.success ]_vars

----------------------------------------------------------------------------
(* Properties of connect *)

\* C23: whenever connect returns false (no device detected, open failed, or
\* the DTR handshake failed after the port was opened) the bridge holds no
\* connection opened by that call: a slot that was empty stays empty and no
\* serial port the call opened is left open.
C23_FailedConnectLeavesNothing ==
    [][ ( /\ hwRet'.op = "connect"
          /\ ~hwRet'.ok
          /\ hwRet'.escaped = "" )
        => /\ hw.slot = 0 => hw'.slot = 0
           /\ hw'.open \subseteq hw.open ]_vars

----------------------------------------------------------------------------
(* Further properties of converse *)

\* C24: in every result converse returns, needsInput is false if and only if
\* projectSpec is not null, whatever the collaborator replied.
C24_NeedsInputIffNoSpec ==
    chatRet # NoChat =>
        (~chatRet.needsInput <=> chatRet.projectSpec # JNull)

----------------------------------------------------------------------------
(* Properties of the simulator routes *)

\* C25: after a simulate request for project name N succeeded, a get and a
\* stop request for the same N find that session, for every N, names with
\* spaces or uppercase letters included: simulate registers the session under
\* the key get and stop look up.
C25_SimulateKeyIsLookupKey ==
    [][ \A name \in Names :
          /\ SimulateStep(name) =>
                /\ get_simulation(sims', Join(name)) = simRet'.session
                /\ stop_simulation(sims', Join(name)).stopped
          /\ ( /\ simRet.op = "simulate" /\ simRet.name = Join(name)
               /\ simRet.http = 200
               /\ GetAsked(Join(name)) )
             => simRet'.http = 200 /\ simRet'.session = simRet.session ]_vars

----------------------------------------------------------------------------
(* Properties of readSerial under a racing disconnect *)

\* the step is the next poll of the suspended readSerial call, after another
\* caller's disconnect ran at one of its suspension points
PollAfterDisconnect ==
    /\ proc.kind = "read"
    /\ interrupted.cut
    /\ proc' # proc
\* the poll ends the call: it returns the lines held at the disconnect
\* without raising, and leaves the bridge as it is
ReturnsInterrupted ==
    /\ proc' = NoProc
    /\ hwRet' = [HwReturn("read") EXCEPT !.lines = interrupted.lines]
    /\ hw' = hw

\* C26: when another caller's disconnect runs at a suspension point of
\* readSerial's polling loop, readSerial does not raise: it stops polling,
\* returns exactly the non-empty lines it had collected before the
\* disconnect, and does not reopen the connection.
C26_ReadStopsAfterDisconnect ==
    [][ PollAfterDisconnect => ReturnsInterrupted ]_vars

\* C26 as amended: the same, as long as no other caller has connected again
\* before readSerial polls next.
C26_ReadStopsWhileSlotEmpty ==
    [][ (PollAfterDisconnect /\ hw.slot = 0) => ReturnsInterrupted ]_vars

\* readSerial returned the line it had collected before a racing disconnect
C26_Witness ==
    /\ hwRet.op = "read"
    /\ interrupted.cut
    /\ interrupted.lines # <<>>
    /\ hwRet.lines = interrupted.lines
    /\ hw.slot = 0
    /\ proc = NoProc

====
